---- MODULE Spec2Model ----
(***************************************************************************)
(* Shard routing, congestion control and validator mandates of the         *)
(* near/core/primitives crate.                                             *)
(*                                                                         *)
(* Four state machines share this module, one per subsystem; each keeps    *)
(* the variables of the others at their parked values:                     *)
(*   SpecControl   a CongestionControl value and the decisions taken on it *)
(*   SpecInfo      a CongestionInfo and its mutators                       *)
(*   SpecLayout    a ShardLayout and account routing                       *)
(*   SpecMandates  ValidatorMandates::new and ValidatorMandates::sample    *)
(***************************************************************************)
EXTENDS Integers, Sequences, FiniteSets, TLC

VARIABLES
    cc,        \* the CongestionControl under decision: config, info, missed_chunks_count
    cret,      \* the last decision taken on cc and what it returned
    info,      \* the CongestionInfo a chunk application builds up
    iret,      \* the last call made on info: its arguments, the info before it, its result
    layout,    \* the ShardLayout in use
    lret,      \* the last routing call and its result
    vm,        \* the ValidatorMandates of the epoch (or the construction that panicked)
    mret,      \* the last ValidatorMandates call: its inputs, its draws, its result
    args,      \* the value a conversion or a pure function is applied to
    ret        \* the last conversion or application: its input and its result

vars == <<cc, cret, info, iret, layout, lret, vm, mret, args, ret>>

\* The value every *ret variable holds before the first call.
NoCall == [op |-> "none"]

(***************************************************************************)
(* Results.  A Rust call either returns a value or panics; a fallible one  *)
(* returns Ok(v) or Err(e).                                                *)
(***************************************************************************)
Returned(v) == [returns |-> TRUE, val |-> v]
Panicked == [returns |-> FALSE]

(***************************************************************************)
(* f64.  An f64 is kept as the exact fraction <<n, d>> in lowest terms.    *)
(* Every divisor the model hands to clamped_f64_fraction is 0 or a power   *)
(* of two (Thresholds), and every integer is far below 2^53, so each       *)
(* `as f64`, each quotient and each product and sum in mix is exactly      *)
(* representable: the fraction is the f64 the code computes.               *)
(***************************************************************************)
RECURSIVE GCD(_, _)
GCD(a, b) == IF b = 0 THEN a ELSE GCD(b, a % b)

F64(n, d) == LET g == GCD(n, d) IN <<n \div g, d \div g>>
F64Zero == F64(0, 1)
F64One == F64(1, 1)
F64Lt(a, b) == a[1] * b[2] < b[1] * a[2]
F64Ge(a, b) == ~F64Lt(a, b)
\* f64::max of two numbers (no NaN is ever produced: every divisor is > 0).
F64Max(a, b) == IF F64Lt(a, b) THEN b ELSE a

(***************************************************************************)
(* Bounds of the congestion model.                                         *)
(***************************************************************************)
\* Largest delayed_receipts_gas, buffered_receipts_gas and receipt_bytes of a
\* CongestionControl under decision.
MaxCounter == 3
\* Largest missed_chunks_count of a CongestionControl under decision.
MaxMissed == 3
\* Largest shard id a decision is asked about.
MaxSender == 2

\* The four max_congestion_* thresholds: every combination of two powers of
\* two, and the smaller one with one threshold set to 0 (the assertion of
\* clamped_f64_fraction fails on it).
ThresholdFields ==
    { "max_congestion_incoming_gas", "max_congestion_outgoing_gas",
      "max_congestion_memory_consumption", "max_congestion_missed_chunks" }

Thresholds ==
    [ThresholdFields -> {2, 4}]
        \cup { [f \in ThresholdFields |-> IF f = z THEN 0 ELSE 2] : z \in ThresholdFields }

\* CongestionControlConfig values: the thresholds above, two reject thresholds,
\* and gas and size limits that all differ.
Configs ==
    { [ max_congestion_incoming_gas |-> t["max_congestion_incoming_gas"],
        max_congestion_outgoing_gas |-> t["max_congestion_outgoing_gas"],
        max_congestion_memory_consumption |-> t["max_congestion_memory_consumption"],
        max_congestion_missed_chunks |-> t["max_congestion_missed_chunks"],
        max_outgoing_gas |-> 8,
        min_outgoing_gas |-> 1,
        allowed_shard_outgoing_gas |-> 3,
        max_tx_gas |-> 6,
        min_tx_gas |-> 2,
        outgoing_receipts_big_size_limit |-> 9,
        outgoing_receipts_usual_size_limit |-> 5,
        reject_tx_congestion_threshold |-> r ] :
      t \in Thresholds, r \in {F64(1, 2), F64(1, 1)} }

\* CongestionInfoV1 values a decision may be taken on.
DecidedInfos ==
    [ delayed_receipts_gas : 0..MaxCounter,
      buffered_receipts_gas : 0..MaxCounter,
      receipt_bytes : 0..MaxCounter,
      allowed_shard : {0, 1} ]

(***************************************************************************)
(* CongestionControl                                                       *)
(***************************************************************************)
\* CongestionControl::new
NewCongestionControl(config, i, missed_chunks_count) ==
    [config |-> config, info |-> i, missed_chunks_count |-> missed_chunks_count]

\* assert!(max > 0); 1.0 when max <= value, value / max otherwise.
clamped_f64_fraction(value, max) ==
    IF ~(max > 0) THEN Panicked
    ELSE IF max <= value THEN Returned(F64One)
    ELSE Returned(F64(value, max))

\* CongestionInfo::incoming_congestion
incoming_congestion(i, config) ==
    clamped_f64_fraction(i.delayed_receipts_gas, config.max_congestion_incoming_gas)

\* CongestionInfo::outgoing_congestion
outgoing_congestion(i, config) ==
    clamped_f64_fraction(i.buffered_receipts_gas, config.max_congestion_outgoing_gas)

\* CongestionInfo::memory_congestion
memory_congestion(i, config) ==
    clamped_f64_fraction(i.receipt_bytes, config.max_congestion_memory_consumption)

\* A slip in missed_chunks_congestion: only a count of 0 is exempt.
missed_chunks_congestion_lt1(c) ==
    IF c.missed_chunks_count < 1 THEN Returned(F64Zero)
    ELSE clamped_f64_fraction(c.missed_chunks_count, c.config.max_congestion_missed_chunks)

\* CongestionControl::missed_chunks_congestion
missed_chunks_congestion(c) ==
    IF c.missed_chunks_count <= 1 THEN Returned(F64Zero)
    ELSE clamped_f64_fraction(c.missed_chunks_count, c.config.max_congestion_missed_chunks)

\* The maximum of the four measures, taken in the order the code takes it.
MaxOfMeasures(incoming, outgoing, memory, missed) ==
    F64Max(F64Max(F64Max(incoming, outgoing), memory), missed)

\* CongestionControl::congestion_level
congestion_level(c) ==
    LET incoming == incoming_congestion(c.info, c.config)
        outgoing == outgoing_congestion(c.info, c.config)
        memory == memory_congestion(c.info, c.config)
        missed == missed_chunks_congestion(c)
    IN  IF ~incoming.returns \/ ~outgoing.returns \/ ~memory.returns \/ ~missed.returns
        THEN Panicked
        ELSE Returned(MaxOfMeasures(incoming.val, outgoing.val, memory.val, missed.val))

\* f64::round: to the nearest integer, a half away from zero (total >= 0 here).
F64Round(total) == (2 * total[1] + total[2]) \div (2 * total[2])

\* mix: left * (1 - ratio) + right * ratio, rounded, as u64.
mix(left, right, ratio) ==
    LET n == ratio[1]
        d == ratio[2]
        total == F64(left * (d - n) + right * n, d)
    IN  F64Round(total)

\* A slip in outgoing_gas_limit: no red light, the interpolation is used
\* at every level.
outgoing_gas_limit_no_red_light(c, sender_shard) ==
    LET congestion == congestion_level(c)
    IN  IF ~congestion.returns THEN Panicked
        ELSE Returned(mix(c.config.max_outgoing_gas, c.config.min_outgoing_gas,
                          congestion.val))

\* CongestionControl::outgoing_gas_limit
outgoing_gas_limit(c, sender_shard) ==
    LET congestion == congestion_level(c)
    IN  IF ~congestion.returns THEN Panicked
        ELSE IF congestion.val = F64One
        THEN IF sender_shard = c.info.allowed_shard
             THEN Returned(c.config.allowed_shard_outgoing_gas)
             ELSE Returned(0)
        ELSE Returned(mix(c.config.max_outgoing_gas, c.config.min_outgoing_gas,
                          congestion.val))

\* CongestionControl::outgoing_size_limit
outgoing_size_limit(c, sender_shard) ==
    IF sender_shard = c.info.allowed_shard
    THEN Returned(c.config.outgoing_receipts_big_size_limit)
    ELSE Returned(c.config.outgoing_receipts_usual_size_limit)

\* A slip in process_tx_limit: the congestion level in place of the incoming
\* congestion.
process_tx_limit_by_level(c) ==
    LET congestion == congestion_level(c)
    IN  IF ~congestion.returns THEN Panicked
        ELSE Returned(mix(c.config.max_tx_gas, c.config.min_tx_gas, congestion.val))

\* CongestionControl::process_tx_limit
process_tx_limit(c) ==
    LET incoming == incoming_congestion(c.info, c.config)
    IN  IF ~incoming.returns THEN Panicked
        ELSE Returned(mix(c.config.max_tx_gas, c.config.min_tx_gas, incoming.val))

\* A slip in the order of the reasons: incoming is asked before missed chunks.
RejectReason_incoming_first(c, level, incoming, outgoing, memory, missed) ==
    IF F64Ge(incoming, level)
    THEN [kind |-> "IncomingCongestion", congestion_level |-> level]
    ELSE IF F64Ge(missed, level)
    THEN [kind |-> "MissedChunks", missed_chunks |-> c.missed_chunks_count]
    ELSE IF F64Ge(outgoing, level)
    THEN [kind |-> "OutgoingCongestion", congestion_level |-> level]
    ELSE [kind |-> "MemoryCongestion", congestion_level |-> level]

\* The reason a rejection reports: the first of missed, incoming, outgoing whose
\* measure is >= the level, else memory.
RejectReason(c, level, incoming, outgoing, memory, missed) ==
    IF F64Ge(missed, level)
    THEN [kind |-> "MissedChunks", missed_chunks |-> c.missed_chunks_count]
    ELSE IF F64Ge(incoming, level)
    THEN [kind |-> "IncomingCongestion", congestion_level |-> level]
    ELSE IF F64Ge(outgoing, level)
    THEN [kind |-> "OutgoingCongestion", congestion_level |-> level]
    ELSE [kind |-> "MemoryCongestion", congestion_level |-> level]

\* A slip in the threshold test: a level equal to the threshold is let in.
BelowRejectThreshold_le(level, config) ==
    ~F64Lt(config.reject_tx_congestion_threshold, level)

\* Whether the level lets transactions in.
BelowRejectThreshold(level, config) == F64Lt(level, config.reject_tx_congestion_threshold)

\* CongestionControl::shard_accepts_transactions
shard_accepts_transactions(c) ==
    LET incoming == incoming_congestion(c.info, c.config)
        outgoing == outgoing_congestion(c.info, c.config)
        memory == memory_congestion(c.info, c.config)
        missed == missed_chunks_congestion(c)
    IN  IF ~incoming.returns \/ ~outgoing.returns \/ ~memory.returns \/ ~missed.returns
        THEN Panicked
        ELSE LET level == MaxOfMeasures(incoming.val, outgoing.val, memory.val, missed.val)
             IN  IF BelowRejectThreshold(level, c.config)
                 THEN Returned([kind |-> "Yes"])
                 ELSE Returned(RejectReason(c, level, incoming.val, outgoing.val,
                                            memory.val, missed.val))

(***************************************************************************)
(* SpecControl: decisions on one CongestionControl.                        *)
(***************************************************************************)
Parked == "parked"

InitControl ==
    /\ cc \in { NewCongestionControl(config, i, missed) :
                  config \in Configs, i \in DecidedInfos, missed \in 0..MaxMissed }
    /\ cret = NoCall
    /\ info = Parked /\ iret = NoCall
    /\ layout = Parked /\ lret = NoCall
    /\ vm = Parked /\ mret = NoCall
    /\ args = Parked /\ ret = NoCall

CongestionLevel ==
    /\ cret' = [op |-> "congestion_level", res |-> congestion_level(cc)]
    /\ UNCHANGED <<cc, info, iret, layout, lret, vm, mret, args, ret>>

OutgoingGasLimit ==
    \E sender_shard \in 0..MaxSender :
        /\ cret' = [op |-> "outgoing_gas_limit", sender_shard |-> sender_shard,
                    res |-> outgoing_gas_limit(cc, sender_shard)]
        /\ UNCHANGED <<cc, info, iret, layout, lret, vm, mret, args, ret>>

OutgoingSizeLimit ==
    \E sender_shard \in 0..MaxSender :
        /\ cret' = [op |-> "outgoing_size_limit", sender_shard |-> sender_shard,
                    res |-> outgoing_size_limit(cc, sender_shard)]
        /\ UNCHANGED <<cc, info, iret, layout, lret, vm, mret, args, ret>>

ProcessTxLimit ==
    /\ cret' = [op |-> "process_tx_limit", res |-> process_tx_limit(cc)]
    /\ UNCHANGED <<cc, info, iret, layout, lret, vm, mret, args, ret>>

ShardAcceptsTransactions ==
    /\ cret' = [op |-> "shard_accepts_transactions", res |-> shard_accepts_transactions(cc)]
    /\ UNCHANGED <<cc, info, iret, layout, lret, vm, mret, args, ret>>

NextControl ==
    \/ CongestionLevel
    \/ OutgoingGasLimit
    \/ OutgoingSizeLimit
    \/ ProcessTxLimit
    \/ ShardAcceptsTransactions

SpecControl == InitControl /\ [][NextControl]_vars

(***************************************************************************)
(* SpecMix: mix applied to two gas values and a ratio in [0, 1].           *)
(***************************************************************************)
\* Largest gas value handed to mix.
MaxGas == 3

\* Ratios in [0, 1] that f64 holds exactly.
Ratios == { F64(n, 4) : n \in 0..4 }

InitMix ==
    /\ args \in [left : 0..MaxGas, right : 0..MaxGas, ratio : Ratios]
    /\ ret = NoCall
    /\ cc = Parked /\ cret = NoCall
    /\ info = Parked /\ iret = NoCall
    /\ layout = Parked /\ lret = NoCall
    /\ vm = Parked /\ mret = NoCall

Mix ==
    /\ ret' = [op |-> "mix", res |-> mix(args.left, args.right, args.ratio)]
    /\ UNCHANGED <<args, cc, cret, info, iret, layout, lret, vm, mret>>

NextMix ==
    \/ Mix

SpecMix == InitMix /\ [][NextMix]_vars

(***************************************************************************)
(* CongestionInfo                                                          *)
(***************************************************************************)
\* u64::MAX and u128::MAX of the three counters and of the amounts added to
\* them, scaled down so that a few calls reach them.  Shard ids are not scaled.
ScaledU64Max == 3
ScaledU128Max == 5
\* Largest congestion_seed.
MaxSeed == 2
\* Number of values of a u16: `x as u16` is x modulo this.
U16Range == 65536

\* Shard ids (u64) handed to finalize_allowed_shard as own_shard and in
\* all_shards: small ones and the first ones that do not fit a u16.
OwnShards == {1, U16Range + 1}
ListedShards == {0, U16Range}
\* allowed_shard values (u16) handed to set_allowed_shard.
AllowedShards == {0, 1, U16Range - 1}

\* The shard lists handed to finalize_allowed_shard: BlockCongestionInfo::all_shards,
\* the keys of a BTreeMap, hence ascending and without duplicates.
RECURSIVE SortedSeq(_)
SortedSeq(S) ==
    IF S = {} THEN <<>>
    ELSE LET least == CHOOSE x \in S : \A y \in S : x <= y
         IN  <<least>> \o SortedSeq(S \ {least})

AllShardsLists == { SortedSeq(S) : S \in SUBSET ListedShards }

\* CongestionInfo::default
DefaultCongestionInfo ==
    [ delayed_receipts_gas |-> 0, buffered_receipts_gas |-> 0,
      receipt_bytes |-> 0, allowed_shard |-> 0 ]

Some(v) == [some |-> TRUE, val |-> v]
None == [some |-> FALSE, val |-> 0]
\* None of an Option<Vec<_>>.
NoneVec == [some |-> FALSE, val |-> <<>>]

\* A slip: wrapping_add in place of checked_add.
wrapping_add(a, b, max) == Some((a + b) % (max + 1))

\* uN::checked_add, for the type whose largest value is max.
checked_add(a, b, max) == IF a + b > max THEN None ELSE Some(a + b)

\* uN::checked_sub
checked_sub(a, b) == IF a - b < 0 THEN None ELSE Some(a - b)

\* u64::checked_rem
checked_rem(a, b) == IF b = 0 THEN None ELSE Some(a % b)

\* `x as u16`
AsU16(x) == x % U16Range

OkUnit == [ok |-> TRUE, err |-> "", at |-> ""]
\* Err(RuntimeError::UnexpectedIntegerOverflow(at))
ErrOverflow(at) == [ok |-> FALSE, err |-> "UnexpectedIntegerOverflow", at |-> at]

\* A slip: the counter is cleared when the checked operation yields None.
Assigned_clearing(i, field, checked, at) ==
    IF checked.some
    THEN [info |-> [i EXCEPT ![field] = checked.val], res |-> OkUnit]
    ELSE [info |-> [i EXCEPT ![field] = 0], res |-> ErrOverflow(at)]

\* What a mutator leaves behind: the info and the Result it returns.  The `?`
\* returns before the assignment when the checked operation yields None.
Assigned(i, field, checked, at) ==
    IF checked.some
    THEN [info |-> [i EXCEPT ![field] = checked.val], res |-> OkUnit]
    ELSE [info |-> i, res |-> ErrOverflow(at)]

\* CongestionInfo::add_receipt_bytes
add_receipt_bytes(i, bytes) ==
    Assigned(i, "receipt_bytes", checked_add(i.receipt_bytes, bytes, ScaledU64Max),
             "add_receipt_bytes")

\* CongestionInfo::remove_receipt_bytes
remove_receipt_bytes(i, bytes) ==
    Assigned(i, "receipt_bytes", checked_sub(i.receipt_bytes, bytes),
             "remove_receipt_bytes")

\* CongestionInfo::add_delayed_receipt_gas
add_delayed_receipt_gas(i, gas) ==
    Assigned(i, "delayed_receipts_gas",
             checked_add(i.delayed_receipts_gas, gas, ScaledU128Max),
             "add_delayed_receipt_gas")

\* CongestionInfo::remove_delayed_receipt_gas
remove_delayed_receipt_gas(i, gas) ==
    Assigned(i, "delayed_receipts_gas", checked_sub(i.delayed_receipts_gas, gas),
             "remove_delayed_receipt_gas")

\* A slip: add_buffered_receipt_gas adding to the delayed receipts.
add_buffered_receipt_gas_to_delayed(i, gas) ==
    [ info |-> [i EXCEPT !.delayed_receipts_gas = (@ + gas) % (ScaledU128Max + 1)],
      res |-> OkUnit ]

\* CongestionInfo::add_buffered_receipt_gas
add_buffered_receipt_gas(i, gas) ==
    Assigned(i, "buffered_receipts_gas",
             checked_add(i.buffered_receipts_gas, gas, ScaledU128Max),
             "add_buffered_receipt_gas")

\* CongestionInfo::remove_buffered_receipt_gas
remove_buffered_receipt_gas(i, gas) ==
    Assigned(i, "buffered_receipts_gas", checked_sub(i.buffered_receipts_gas, gas),
             "remove_buffered_receipt_gas")

\* CongestionInfo::set_allowed_shard
set_allowed_shard(i, allowed_shard) == [i EXCEPT !.allowed_shard = allowed_shard]

\* CongestionInfo::get_new_allowed_shard
get_new_allowed_shard(own_shard, all_shards, congestion_seed) ==
    LET index == checked_rem(congestion_seed, Len(all_shards))
    IN  IF index.some THEN all_shards[index.val + 1] ELSE own_shard

\* CongestionInfo::finalize_allowed_shard
finalize_allowed_shard(i, own_shard, all_shards, congestion_seed) ==
    set_allowed_shard(i, AsU16(get_new_allowed_shard(own_shard, all_shards, congestion_seed)))

\* CongestionInfo::allowed_shard, read back as a ShardId (`as u64`).
allowed_shard(i) == i.allowed_shard

(***************************************************************************)
(* SpecInfo: one CongestionInfo, from its default, under its mutators.     *)
(***************************************************************************)
InitInfo ==
    /\ info = DefaultCongestionInfo
    /\ iret = NoCall
    /\ cc = Parked /\ cret = NoCall
    /\ layout = Parked /\ lret = NoCall
    /\ vm = Parked /\ mret = NoCall
    /\ args = Parked /\ ret = NoCall

\* A mutator call: `out` is what the mutator leaves behind.
Mutated(op, amount, out) ==
    /\ info' = out.info
    /\ iret' = [op |-> op, amount |-> amount, before |-> info, res |-> out.res]
    /\ UNCHANGED <<cc, cret, layout, lret, vm, mret, args, ret>>

AddReceiptBytes ==
    \E bytes \in 0..ScaledU64Max :
        Mutated("add_receipt_bytes", bytes, add_receipt_bytes(info, bytes))

RemoveReceiptBytes ==
    \E bytes \in 0..ScaledU64Max :
        Mutated("remove_receipt_bytes", bytes, remove_receipt_bytes(info, bytes))

AddDelayedReceiptGas ==
    \E gas \in 0..ScaledU64Max :
        Mutated("add_delayed_receipt_gas", gas, add_delayed_receipt_gas(info, gas))

RemoveDelayedReceiptGas ==
    \E gas \in 0..ScaledU64Max :
        Mutated("remove_delayed_receipt_gas", gas, remove_delayed_receipt_gas(info, gas))

AddBufferedReceiptGas ==
    \E gas \in 0..ScaledU64Max :
        Mutated("add_buffered_receipt_gas", gas, add_buffered_receipt_gas(info, gas))

RemoveBufferedReceiptGas ==
    \E gas \in 0..ScaledU64Max :
        Mutated("remove_buffered_receipt_gas", gas, remove_buffered_receipt_gas(info, gas))

SetAllowedShard ==
    \E a \in AllowedShards :
        /\ info' = set_allowed_shard(info, a)
        /\ iret' = [op |-> "set_allowed_shard", allowed_shard |-> a, before |-> info]
        /\ UNCHANGED <<cc, cret, layout, lret, vm, mret, args, ret>>

FinalizeAllowedShard ==
    \E own_shard \in OwnShards, all_shards \in AllShardsLists, congestion_seed \in 0..MaxSeed :
        /\ info' = finalize_allowed_shard(info, own_shard, all_shards, congestion_seed)
        /\ iret' = [op |-> "finalize_allowed_shard", own_shard |-> own_shard,
                    all_shards |-> all_shards, congestion_seed |-> congestion_seed,
                    before |-> info]
        /\ UNCHANGED <<cc, cret, layout, lret, vm, mret, args, ret>>

NextInfo ==
    \/ AddReceiptBytes
    \/ RemoveReceiptBytes
    \/ AddDelayedReceiptGas
    \/ RemoveDelayedReceiptGas
    \/ AddBufferedReceiptGas
    \/ RemoveBufferedReceiptGas
    \/ SetAllowedShard
    \/ FinalizeAllowedShard

SpecInfo == InitInfo /\ [][NextInfo]_vars

(***************************************************************************)
(* ShardLayout                                                             *)
(***************************************************************************)
\* Largest number of boundary accounts of a layout.
MaxBoundaries == 2

\* AccountIds: strings over a two-letter alphabet, compared as Rust compares
\* str (byte by byte, a proper prefix first).
Accounts == UNION { [1..n -> {1, 2}] : n \in 1..2 }

RECURSIVE StrLt(_, _)
StrLt(a, b) ==
    IF Len(b) = 0 THEN FALSE
    ELSE IF Len(a) = 0 THEN TRUE
    ELSE IF Head(a) < Head(b) THEN TRUE
    ELSE IF Head(b) < Head(a) THEN FALSE
    ELSE StrLt(Tail(a), Tail(b))

\* A slip: `<=` where AccountId is compared with a boundary.
StrLe(a, b) == a = b \/ StrLt(a, b)

\* AccountId < AccountId
AccountLt(a, b) == StrLt(a, b)

BoundaryLists == UNION { [1..n -> Accounts] : n \in 0..MaxBoundaries }

\* Split maps handed to ShardLayout::v1: none (genesis), and maps that name
\* each shard once, twice, not at all, or name a shard out of range.
SplitMaps ==
    { NoneVec, Some(<< <<0>> >>), Some(<< <<0, 1>> >>), Some(<< <<0>>, <<1, 2>> >>),
      Some(<< <<0, 1>>, <<1>> >>), Some(<< <<1>>, <<0>>, <<2>> >>) }

ShardVersions == {1, 2}

\* A slip: the parent is numbered from one.
RECURSIVE SplitPairs_one_based(_, _)
SplitPairs_one_based(split, parent) ==
    IF parent > Len(split) THEN <<>>
    ELSE [k \in 1..Len(split[parent]) |->
              [shard_id |-> split[parent][k], parent_shard_id |-> parent]]
         \o SplitPairs_one_based(split, parent + 1)

\* The (shard_id, parent_shard_id) pairs of a split map, in insertion order.
RECURSIVE SplitPairs(_, _)
SplitPairs(split, parent) ==
    IF parent > Len(split) THEN <<>>
    ELSE [k \in 1..Len(split[parent]) |->
              [shard_id |-> split[parent][k], parent_shard_id |-> parent - 1]]
         \o SplitPairs(split, parent + 1)

\* A slip: the previous entry of an insert is not looked at.
InsertedTwice_unchecked(pairs) == FALSE

\* The first assertion of ShardLayout::v1: an insert found a previous entry.
InsertedTwice(pairs) ==
    \E i, j \in DOMAIN pairs : i < j /\ pairs[i].shard_id = pairs[j].shard_id

\* ShardLayout::v1.  The construction panics when a shard is inserted twice,
\* when a shard id is not below num_shards, and when a shard of the layout has
\* no entry in the map.
v1(boundary_accounts, shards_split_map, version) ==
    IF ~shards_split_map.some
    THEN Returned([ boundary_accounts |-> boundary_accounts,
                    shards_split_map |-> shards_split_map,
                    to_parent_shard_map |-> NoneVec,
                    version |-> version ])
    ELSE LET num_shards == Len(boundary_accounts) + 1
             pairs == SplitPairs(shards_split_map.val, 1)
             twice == InsertedTwice(pairs)
             invalid == \E i \in DOMAIN pairs : ~(pairs[i].shard_id < num_shards)
             missing == \E shard_id \in 0..(num_shards - 1) :
                          \A i \in DOMAIN pairs : pairs[i].shard_id # shard_id
             parent(shard_id) ==
                 pairs[CHOOSE i \in DOMAIN pairs : pairs[i].shard_id = shard_id].parent_shard_id
         IN  IF twice \/ invalid \/ missing THEN Panicked
             ELSE Returned([ boundary_accounts |-> boundary_accounts,
                             shards_split_map |-> shards_split_map,
                             to_parent_shard_map |->
                                 Some([k \in 1..num_shards |-> parent(k - 1)]),
                             version |-> version ])

\* ShardLayout::num_shards
num_shards(l) == Len(l.boundary_accounts) + 1

\* The loop of account_id_to_shard_id from boundary k on, shard_id being the
\* counter so far.
RECURSIVE ScanBoundaries(_, _, _, _)
ScanBoundaries(account_id, boundary_accounts, k, shard_id) ==
    IF k > Len(boundary_accounts) THEN shard_id
    ELSE IF AccountLt(account_id, boundary_accounts[k]) THEN shard_id
    ELSE ScanBoundaries(account_id, boundary_accounts, k + 1, shard_id + 1)

\* account_id_to_shard_id
account_id_to_shard_id(account_id, l) ==
    ScanBoundaries(account_id, l.boundary_accounts, 1, 0)

\* ShardLayout::version (the name version is taken by the argument of v1)
shard_layout_version(l) == l.version

\* ShardLayout::shard_ids
shard_ids(l) == [k \in 1..num_shards(l) |-> k - 1]

\* Shard ids handed to the calls on a layout: valid ones and invalid ones.
ShardIds == 0..(MaxBoundaries + 1)

\* Result<ShardId, ShardLayoutError>
OkShardId(shard_id) == [ok |-> TRUE, val |-> shard_id]
InvalidShardIdError(shard_id) == [ok |-> FALSE, val |-> shard_id]

\* ShardLayout::get_children_shards_ids
get_children_shards_ids(l, parent_shard_id) ==
    IF l.shards_split_map.some
    THEN IF parent_shard_id + 1 \in DOMAIN l.shards_split_map.val
         THEN Some(l.shards_split_map.val[parent_shard_id + 1])
         ELSE NoneVec
    ELSE NoneVec

\* A slip: the parent map is consulted before the shard id is validated.
get_parent_shard_id_map_first(l, shard_id) ==
    IF ~l.to_parent_shard_map.some THEN Panicked
    ELSE IF ~(\E k \in DOMAIN shard_ids(l) : shard_ids(l)[k] = shard_id)
    THEN Returned(InvalidShardIdError(shard_id))
    ELSE Returned(OkShardId(l.to_parent_shard_map.val[shard_id + 1]))

\* ShardLayout::get_parent_shard_id
get_parent_shard_id(l, shard_id) ==
    IF ~(\E k \in DOMAIN shard_ids(l) : shard_ids(l)[k] = shard_id)
    THEN Returned(InvalidShardIdError(shard_id))
    ELSE IF l.to_parent_shard_map.some
    THEN IF shard_id + 1 \in DOMAIN l.to_parent_shard_map.val
         THEN Returned(OkShardId(l.to_parent_shard_map.val[shard_id + 1]))
         ELSE Panicked
    ELSE Panicked

\* ShardUId::single_shard
single_shard == [version |-> 0, shard_id |-> 0]

\* A slip: the version of single_shard in place of the layout's.
from_shard_id_and_layout_version_0(shard_id, l) ==
    IF ~(\E k \in DOMAIN shard_ids(l) : shard_ids(l)[k] = shard_id) THEN Panicked
    ELSE Returned([version |-> single_shard.version, shard_id |-> shard_id])

\* ShardUId::from_shard_id_and_layout.  `shard_id as u32` keeps a valid shard
\* id as it is.
from_shard_id_and_layout(shard_id, l) ==
    IF ~(\E k \in DOMAIN shard_ids(l) : shard_ids(l)[k] = shard_id) THEN Panicked
    ELSE Returned([version |-> shard_layout_version(l), shard_id |-> shard_id])

\* A map of from_shard_id_and_layout over ids: it panics as soon as one does.
MapToShardUIds(ids, l) ==
    IF \E k \in DOMAIN ids : ~from_shard_id_and_layout(ids[k], l).returns THEN Panicked
    ELSE Returned([k \in DOMAIN ids |-> from_shard_id_and_layout(ids[k], l).val])

\* ShardLayout::shard_uids, collected
shard_uids(l) == MapToShardUIds(shard_ids(l), l)

\* ShardLayout::get_children_shards_uids
get_children_shards_uids(l, parent_shard_id) ==
    LET children == get_children_shards_ids(l, parent_shard_id)
    IN  IF ~children.some THEN Returned(NoneVec)
        ELSE LET uids == MapToShardUIds(children.val, l)
             IN  IF uids.returns THEN Returned(Some(uids.val)) ELSE Panicked

\* account_id_to_shard_uid
account_id_to_shard_uid(account_id, l) ==
    from_shard_id_and_layout(account_id_to_shard_id(account_id, l), l)

\* Ord for ShardUId, derived: by version, then by shard_id.
ShardUIdLt(a, b) ==
    \/ a.version < b.version
    \/ a.version = b.version /\ a.shard_id < b.shard_id

(***************************************************************************)
(* SpecLayout: one ShardLayout, constructed once, and the calls on it.     *)
(***************************************************************************)
InitLayout ==
    /\ \E b \in BoundaryLists, m \in SplitMaps, version \in ShardVersions :
          /\ layout = v1(b, m, version)
          /\ lret = [op |-> "v1", boundary_accounts |-> b, shards_split_map |-> m,
                     version |-> version]
    /\ cc = Parked /\ cret = NoCall
    /\ info = Parked /\ iret = NoCall
    /\ vm = Parked /\ mret = NoCall
    /\ args = Parked /\ ret = NoCall

AccountIdToShardId ==
    /\ layout.returns
    /\ \E account_id \in Accounts :
          lret' = [op |-> "account_id_to_shard_id", account_id |-> account_id,
                   res |-> account_id_to_shard_id(account_id, layout.val)]
    /\ UNCHANGED <<layout, cc, cret, info, iret, vm, mret, args, ret>>

GetParentShardId ==
    /\ layout.returns
    /\ \E shard_id \in ShardIds :
          lret' = [op |-> "get_parent_shard_id", shard_id |-> shard_id,
                   res |-> get_parent_shard_id(layout.val, shard_id)]
    /\ UNCHANGED <<layout, cc, cret, info, iret, vm, mret, args, ret>>

GetChildrenShardsIds ==
    /\ layout.returns
    /\ \E parent_shard_id \in ShardIds :
          lret' = [op |-> "get_children_shards_ids", parent_shard_id |-> parent_shard_id,
                   res |-> get_children_shards_ids(layout.val, parent_shard_id)]
    /\ UNCHANGED <<layout, cc, cret, info, iret, vm, mret, args, ret>>

GetChildrenShardsUids ==
    /\ layout.returns
    /\ \E parent_shard_id \in ShardIds :
          lret' = [op |-> "get_children_shards_uids", parent_shard_id |-> parent_shard_id,
                   res |-> get_children_shards_uids(layout.val, parent_shard_id)]
    /\ UNCHANGED <<layout, cc, cret, info, iret, vm, mret, args, ret>>

FromShardIdAndLayout ==
    /\ layout.returns
    /\ \E shard_id \in ShardIds :
          lret' = [op |-> "from_shard_id_and_layout", shard_id |-> shard_id,
                   res |-> from_shard_id_and_layout(shard_id, layout.val)]
    /\ UNCHANGED <<layout, cc, cret, info, iret, vm, mret, args, ret>>

ShardUids ==
    /\ layout.returns
    /\ lret' = [op |-> "shard_uids", res |-> shard_uids(layout.val)]
    /\ UNCHANGED <<layout, cc, cret, info, iret, vm, mret, args, ret>>

AccountIdToShardUid ==
    /\ layout.returns
    /\ \E account_id \in Accounts :
          lret' = [op |-> "account_id_to_shard_uid", account_id |-> account_id,
                   res |-> account_id_to_shard_uid(account_id, layout.val)]
    /\ UNCHANGED <<layout, cc, cret, info, iret, vm, mret, args, ret>>

NextLayout ==
    \/ AccountIdToShardId
    \/ GetParentShardId
    \/ GetChildrenShardsIds
    \/ GetChildrenShardsUids
    \/ FromShardIdAndLayout
    \/ ShardUids
    \/ AccountIdToShardUid

SpecLayout == InitLayout /\ [][NextLayout]_vars

(***************************************************************************)
(* ShardUId: its byte form, its string form, next_shard_prefix             *)
(***************************************************************************)
\* u8::MAX
U8Max == 255
\* u32::MAX is 10 * U32MaxDiv10 + U32MaxMod10
U32MaxDiv10 == 429496729
U32MaxMod10 == 5

\* u32 values of a ShardUId.  The values of the upper half of u32 are left
\* out: the checker's integers end at 2^31 - 1.
U32Values == {0, 1, 9, 10, 255, 256, 65536, 16777216, 2147483647}

ShardUIds == [version : U32Values, shard_id : U32Values]

RECURSIVE Pow256(_)
Pow256(k) == IF k = 0 THEN 1 ELSE (U8Max + 1) * Pow256(k - 1)

\* A slip: u32::to_be_bytes
to_be_bytes(x) == [k \in 1..4 |-> (x \div Pow256(4 - k)) % (U8Max + 1)]

\* u32::to_le_bytes
to_le_bytes(x) == [k \in 1..4 |-> (x \div Pow256(k - 1)) % (U8Max + 1)]

\* u32::from_le_bytes
from_le_bytes(bytes) ==
    bytes[1] + Pow256(1) * bytes[2] + Pow256(2) * bytes[3] + Pow256(3) * bytes[4]

\* ShardUId::to_bytes
to_bytes(u) == to_le_bytes(u.version) \o to_le_bytes(u.shard_id)

\* Result<ShardUId, _>
OkShardUId(u) == [ok |-> TRUE, val |-> u, err |-> ""]
ErrShardUId(message) == [ok |-> FALSE, val |-> single_shard, err |-> message]

\* TryFrom<&[u8]> for ShardUId
try_from(bytes) ==
    IF Len(bytes) # 8 THEN ErrShardUId("incorrect length for ShardUId")
    ELSE OkShardUId([ version |-> from_le_bytes(SubSeq(bytes, 1, 4)),
                      shard_id |-> from_le_bytes(SubSeq(bytes, 5, 8)) ])

\* Strings are sequences of characters.
Digits == <<"0", "1", "2", "3", "4", "5", "6", "7", "8", "9">>
DigitOf(c) == (CHOOSE d \in DOMAIN Digits : Digits[d] = c) - 1
IsDigit(c) == \E d \in DOMAIN Digits : Digits[d] = c

\* Display for u32: the decimal digits, no sign, no leading zero.
RECURSIVE Decimal(_)
Decimal(x) ==
    IF x < 10 THEN <<Digits[x + 1]>>
    ELSE Decimal(x \div 10) \o <<Digits[(x % 10) + 1]>>

\* Display for ShardUId: write!(f, "s{}.v{}", self.shard_id, self.version)
to_string(u) == <<"s">> \o Decimal(u.shard_id) \o <<".", "v">> \o Decimal(u.version)

\* The digits of str::parse::<u32>, from the left; acc is the value so far.
RECURSIVE ParseDigits(_, _)
ParseDigits(chars, acc) ==
    IF chars = <<>> THEN Some(acc)
    ELSE IF ~IsDigit(Head(chars)) THEN None
    ELSE LET d == DigitOf(Head(chars))
         IN  IF acc > U32MaxDiv10 \/ (acc = U32MaxDiv10 /\ d > U32MaxMod10) THEN None
             ELSE ParseDigits(Tail(chars), 10 * acc + d)

\* str::parse::<u32>: an optional "+", then one digit at least.
parse_u32(chars) ==
    LET digits == IF chars # <<>> /\ Head(chars) = "+" THEN Tail(chars) ELSE chars
    IN  IF digits = <<>> THEN None ELSE ParseDigits(digits, 0)

\* str::split_once("."): the position of the first ".", 0 for none.
FirstDot(chars) ==
    IF \E k \in DOMAIN chars : chars[k] = "."
    THEN CHOOSE k \in DOMAIN chars :
             chars[k] = "." /\ \A j \in 1..(k - 1) : chars[j] # "."
    ELSE 0

\* str::strip_prefix of a one-character prefix
strip_prefix(chars, prefix) ==
    IF chars # <<>> /\ Head(chars) = prefix THEN Some(Tail(chars)) ELSE NoneVec

\* FromStr for ShardUId
from_str(chars) ==
    LET dot == FirstDot(chars)
        shard_str == SubSeq(chars, 1, dot - 1)
        version_str == SubSeq(chars, dot + 1, Len(chars))
        version_digits == strip_prefix(version_str, "v")
        version == parse_u32(version_digits.val)
        shard_digits == strip_prefix(shard_str, "s")
        shard_id == parse_u32(shard_digits.val)
    IN  IF dot = 0 THEN ErrShardUId("shard version and number must be separated by \".\"")
        ELSE IF ~version_digits.some THEN ErrShardUId("shard version must start with \"v\"")
        ELSE IF ~version.some THEN ErrShardUId("shard version after \"v\" must be a number")
        ELSE IF ~shard_digits.some THEN ErrShardUId("shard id must start with \"s\"")
        ELSE IF ~shard_id.some THEN ErrShardUId("shard id after \"s\" must be a number")
        ELSE OkShardUId([shard_id |-> shard_id.val, version |-> version.val])

\* A slip: the counter is little-endian, the carry runs from the first byte.
RECURSIVE next_shard_prefix_le(_, _)
next_shard_prefix_le(result, i) ==
    IF i < 1 THEN Panicked
    ELSE IF result[9 - i] = U8Max
    THEN next_shard_prefix_le([result EXCEPT ![9 - i] = 0], i - 1)
    ELSE Returned([result EXCEPT ![9 - i] = @ + 1])

\* The loop of next_shard_prefix from byte i (counted from 1) down.
RECURSIVE NextPrefixFrom(_, _)
NextPrefixFrom(result, i) ==
    IF i < 1 THEN Panicked
    ELSE IF result[i] = U8Max THEN NextPrefixFrom([result EXCEPT ![i] = 0], i - 1)
    ELSE Returned([result EXCEPT ![i] = @ + 1])

\* ShardUId::next_shard_prefix
next_shard_prefix(shard_uid_bytes) == NextPrefixFrom(shard_uid_bytes, 8)

\* Byte strings that are no ShardUId, of every length near 8, and the 8-byte
\* prefixes at which the carry of next_shard_prefix runs and ends.
ByteStrings ==
    { [k \in 1..n |-> b] : n \in {0, 1, 4, 7, 9, 16}, b \in {0, U8Max} }
Prefixes ==
    { [k \in 1..8 |-> IF k < j THEN low ELSE IF k = j THEN mid ELSE U8Max] :
        j \in 1..8, low \in {0, 1, U8Max}, mid \in {0, U8Max - 1, U8Max} }

\* Strings that no ShardUId prints.
OtherStrings ==
    { <<"s", "1", "v", "2">>, <<"s", "1", ".", "2">>, <<"s", "1", ".", "v">>,
      <<"s", "1", ".", "v", "x">>, <<"1", ".", "v", "2">>, <<"s", ".", "v", "2">>,
      <<"s", "x", ".", "v", "2">>, <<"s", "1", ".", "v", "2", ".", "v", "3">>,
      <<"s", "+", "1", ".", "v", "+", "2">>, <<"s", "0", "1", ".", "v", "0", "2">>,
      <<"s", "-", "1", ".", "v", "2">>, <<>>,
      <<"s", "4", "2", "9", "4", "9", "6", "7", "2", "9", "6", ".", "v", "1">>,
      <<"s", "1", ".", "v", "4", "2", "9", "4", "9", "6", "7", "2", "9", "6">> }

(***************************************************************************)
(* SpecShardUId: one ShardUId and its conversions.                         *)
(***************************************************************************)
InitShardUId ==
    /\ args \in ShardUIds
    /\ ret = NoCall
    /\ cc = Parked /\ cret = NoCall
    /\ info = Parked /\ iret = NoCall
    /\ layout = Parked /\ lret = NoCall
    /\ vm = Parked /\ mret = NoCall

ToBytes ==
    /\ ret' = [op |-> "to_bytes", res |-> to_bytes(args)]
    /\ UNCHANGED <<args, cc, cret, info, iret, layout, lret, vm, mret>>

TryFrom ==
    /\ \E bytes \in {to_bytes(args)} \cup ByteStrings :
          ret' = [op |-> "try_from", bytes |-> bytes, res |-> try_from(bytes)]
    /\ UNCHANGED <<args, cc, cret, info, iret, layout, lret, vm, mret>>

DisplayShardUId ==
    /\ ret' = [op |-> "to_string", res |-> to_string(args)]
    /\ UNCHANGED <<args, cc, cret, info, iret, layout, lret, vm, mret>>

FromStr ==
    /\ \E chars \in {to_string(args)} \cup OtherStrings :
          ret' = [op |-> "from_str", chars |-> chars, res |-> from_str(chars)]
    /\ UNCHANGED <<args, cc, cret, info, iret, layout, lret, vm, mret>>

NextShardPrefix ==
    /\ \E bytes \in {to_bytes(args)} \cup Prefixes :
          ret' = [op |-> "next_shard_prefix", bytes |-> bytes,
                  res |-> next_shard_prefix(bytes)]
    /\ UNCHANGED <<args, cc, cret, info, iret, layout, lret, vm, mret>>

NextShardUId ==
    \/ ToBytes
    \/ TryFrom
    \/ DisplayShardUId
    \/ FromStr
    \/ NextShardPrefix

SpecShardUId == InitShardUId /\ [][NextShardUId]_vars

(***************************************************************************)
(* ValidatorMandates                                                       *)
(***************************************************************************)
\* Largest total stake of the validators, and largest price of a mandate.
MaxStake == 4
\* Largest value of a u16.
U16Max == 65535

RECURSIVE TotalStake(_)
TotalStake(stakes) ==
    IF stakes = <<>> THEN 0 ELSE Head(stakes) + TotalStake(Tail(stakes))

\* The validators of an epoch: up to two, ValidatorId i being position i + 1.
\* A stake one above what a mandate count of u16 holds at price 1 is added.
StakeLists ==
    { stakes \in UNION { [1..n -> 0..MaxStake] : n \in 0..2 } : TotalStake(stakes) <= MaxStake }
    \cup { <<U16Max + 1>>, <<1, U16Max + 1>> }

\* ValidatorMandatesConfig::new
validator_mandates_config_new(target_mandates_per_shard, n) ==
    IF ~(n > 0) THEN Panicked
    ELSE Returned([target_mandates_per_shard |-> target_mandates_per_shard,
                   num_shards |-> n])

MandatesConfigs == { validator_mandates_config_new(1, n).val : n \in {1, 2} }

\* derive(Default) for ValidatorMandatesConfig: every field at its default.
ValidatorMandatesConfigDefault == [target_mandates_per_shard |-> 0, num_shards |-> 0]

\* derive(Default) for ValidatorMandates
ValidatorMandatesDefault ==
    [ config |-> ValidatorMandatesConfigDefault,
      stake_per_mandate |-> 0,
      mandates |-> <<>>,
      partials |-> <<>> ]

\* SmartDefault for EpochInfoV4, of which the mandates are kept.
EpochInfoV4Default == [validator_mandates |-> ValidatorMandatesDefault]

\* compute_price::compute_mandate_price: the prices the search may settle on,
\* small ones and those that aim at a small number of mandates.  Kept are the
\* prices 0 and 1 and those that yield at most MaxStake mandates.
compute_mandate_price(config, stakes) ==
    { p \in (0..MaxStake) \cup { TotalStake(stakes) \div t : t \in 1..MaxStake } :
        p <= 1 \/ TotalStake(stakes) \div p <= MaxStake }

\* A slip in num_mandates: the quotient is rounded up.
num_mandates_rounded_up(stake, stake_per_mandate) ==
    IF stake_per_mandate = 0 THEN Panicked
    ELSE Returned((stake + stake_per_mandate - 1) \div stake_per_mandate)

\* A slip in num_mandates: `as u16` in place of u16::try_from(..).expect(..).
num_mandates_as_u16(stake, stake_per_mandate) ==
    IF stake_per_mandate = 0 THEN Panicked
    ELSE Returned((stake \div stake_per_mandate) % (U16Max + 1))

\* ValidatorStake::num_mandates: u16::try_from(stake / stake_per_mandate).expect(..)
num_mandates(stake, stake_per_mandate) ==
    IF stake_per_mandate = 0 THEN Panicked
    ELSE IF stake \div stake_per_mandate > U16Max THEN Panicked
    ELSE Returned(stake \div stake_per_mandate)

\* ValidatorStake::partial_mandate_weight
partial_mandate_weight(stake, stake_per_mandate) ==
    IF stake_per_mandate = 0 THEN Panicked
    ELSE Returned(stake % stake_per_mandate)

\* `count` times the element x.
Repeat(x, count) == [k \in 1..count |-> x]

\* The two loops of ValidatorMandates::new, from validator i (position i + 1) on.
RECURSIVE PushMandates(_, _)
PushMandates(num_mandates_per_validator, i) ==
    IF i >= Len(num_mandates_per_validator) THEN <<>>
    ELSE Repeat(i, num_mandates_per_validator[i + 1])
         \o PushMandates(num_mandates_per_validator, i + 1)

RECURSIVE PushPartials(_, _, _)
PushPartials(stakes, stake_per_mandate, i) ==
    IF i >= Len(stakes) THEN <<>>
    ELSE LET partial_weight == partial_mandate_weight(stakes[i + 1], stake_per_mandate).val
         IN  (IF partial_weight > 0 THEN << <<i, partial_weight>> >> ELSE <<>>)
             \o PushPartials(stakes, stake_per_mandate, i + 1)

\* ValidatorMandates::new, stake_per_mandate being the price compute_mandate_price found.
validator_mandates_new(config, stakes, stake_per_mandate) ==
    IF \E k \in DOMAIN stakes : ~num_mandates(stakes[k], stake_per_mandate).returns
    THEN Panicked
    ELSE LET num_mandates_per_validator ==
                 [k \in DOMAIN stakes |-> num_mandates(stakes[k], stake_per_mandate).val]
         IN  Returned([ config |-> config,
                        stake_per_mandate |-> stake_per_mandate,
                        mandates |-> PushMandates(num_mandates_per_validator, 0),
                        partials |-> PushPartials(stakes, stake_per_mandate, 0) ])

Range(seq) == { seq[k] : k \in DOMAIN seq }
Count(seq, x) == Cardinality({ k \in DOMAIN seq : seq[k] = x })

\* SliceRandom::shuffle: the orders a shuffle of seq may leave.
Rearrangements(seq) ==
    { p \in [DOMAIN seq -> Range(seq)] : \A x \in Range(seq) : Count(p, x) = Count(seq, x) }

\* The permutations of 1..n: where a shuffle of n elements takes each position from.
ShufflePermutations(n) == { p \in [1..n -> 1..n] : \A i, j \in 1..n : i # j => p[i] # p[j] }

\* SliceRandom::shuffle of seq by the permutation drawn.
Shuffled(seq, permutation) == [k \in DOMAIN seq |-> seq[permutation[k]]]

\* ShuffledShardIds::new: a permutation of the shard ids 0..n-1.
ShuffledShardIds(n) == { [k \in 1..n |-> p[k] - 1] : p \in ShufflePermutations(n) }

\* ShuffledShardIds::get_alias
get_alias(shuffled_shard_ids, shard_id) == shuffled_shard_ids[shard_id + 1]

\* HashMap: a function from its keys.  `*map.entry(key).or_default() += amount`
EmptyMap == <<>>
AddToEntry(map, key, amount) ==
    [k \in DOMAIN map \cup {key} |->
        IF k = key THEN (IF key \in DOMAIN map THEN map[key] ELSE 0) + amount
        ELSE map[k]]

\* A slip: `insert(key, amount)` where the entry is added to.
InsertEntry(map, key, amount) ==
    [k \in DOMAIN map \cup {key} |-> IF k = key THEN amount ELSE map[k]]

\* The credit of a partial mandate to a shard's map.
CreditPartial(map, validator_id, partial_weight) ==
    AddToEntry(map, validator_id, partial_weight)

\* A slip: every mandate from shard_id on, where every num_shards-th is meant.
RECURSIVE CreditMandates_every_index(_, _, _, _, _)
CreditMandates_every_index(map, shuffled_mandates, idx, step, stake_per_mandate) ==
    IF idx >= Len(shuffled_mandates) THEN map
    ELSE CreditMandates_every_index(
             AddToEntry(map, shuffled_mandates[idx + 1], stake_per_mandate),
             shuffled_mandates, idx + 1, step, stake_per_mandate)

\* for idx in (shard_id..shuffled_mandates.len()).step_by(num_shards)
RECURSIVE CreditMandates(_, _, _, _, _)
CreditMandates(map, shuffled_mandates, idx, step, stake_per_mandate) ==
    IF idx >= Len(shuffled_mandates) THEN map
    ELSE CreditMandates(AddToEntry(map, shuffled_mandates[idx + 1], stake_per_mandate),
                        shuffled_mandates, idx + step, step, stake_per_mandate)

\* for idx in (shard_id..shuffled_partials.len()).step_by(num_shards)
RECURSIVE CreditPartials(_, _, _, _)
CreditPartials(map, shuffled_partials, idx, step) ==
    IF idx >= Len(shuffled_partials) THEN map
    ELSE CreditPartials(CreditPartial(map, shuffled_partials[idx + 1][1],
                                      shuffled_partials[idx + 1][2]),
                        shuffled_partials, idx + step, step)

\* The first loop of sample, from shard_id on: stake_assignment_per_shard.
RECURSIVE Distribute(_, _, _, _)
Distribute(stake_assignment_per_shard, v, draws, shard_id) ==
    IF shard_id >= v.config.num_shards THEN stake_assignment_per_shard
    ELSE LET mandates_at == get_alias(draws.shard_ids_for_mandates, shard_id) + 1
             partials_at == get_alias(draws.shard_ids_for_partials, shard_id) + 1
             with_mandates ==
                 [stake_assignment_per_shard EXCEPT ![mandates_at] =
                     CreditMandates(@, draws.shuffled_mandates, shard_id,
                                    v.config.num_shards, v.stake_per_mandate)]
             with_partials ==
                 [with_mandates EXCEPT ![partials_at] =
                     CreditPartials(@, draws.shuffled_partials, shard_id,
                                    v.config.num_shards)]
         IN  Distribute(with_partials, v, draws, shard_id + 1)

\* stake_assignment_per_shard after the first loop of sample.
StakeAssignmentPerShard(v, draws) ==
    Distribute([s \in 1..v.config.num_shards |-> EmptyMap], v, draws, 0)

\* A slip: the keys are shuffled in the order the HashMap yields them.
UnsortedKeys(keys) == keys

\* stake_assignment.keys().sorted(): keys is HashMap::keys, in the map's order.
SortedKeys(keys) == SortedSeq(Range(keys))

\* ValidatorMandates::sample.  draws is what the rng yields; keys_per_shard is
\* the order in which each shard's HashMap iterates its keys.
sample(v, draws, keys_per_shard) ==
    LET stake_assignment_per_shard == StakeAssignmentPerShard(v, draws)
    IN  [s \in 1..v.config.num_shards |->
            LET stake_assignment == stake_assignment_per_shard[s]
                ordered_validator_ids ==
                    Shuffled(SortedKeys(keys_per_shard[s]), draws.validator_shuffles[s])
            IN  [k \in DOMAIN ordered_validator_ids |->
                    <<ordered_validator_ids[k], stake_assignment[ordered_validator_ids[k]]>>]]

\* The orders in which a HashMap may iterate its keys.
KeyOrders(map) ==
    { p \in [1..Cardinality(DOMAIN map) -> DOMAIN map] :
        \A i, j \in DOMAIN p : i # j => p[i] # p[j] }

\* One key order per shard.
KeyOrdersPerShard(maps) ==
    { o \in [DOMAIN maps -> UNION { KeyOrders(maps[s]) : s \in DOMAIN maps }] :
        \A s \in DOMAIN maps : o[s] \in KeyOrders(maps[s]) }

\* One shuffle per shard, of as many positions as the shard has validators.
ValidatorShuffles(maps) ==
    { o \in [DOMAIN maps ->
                UNION { ShufflePermutations(Cardinality(DOMAIN maps[s])) : s \in DOMAIN maps }] :
        \A s \in DOMAIN maps : o[s] \in ShufflePermutations(Cardinality(DOMAIN maps[s])) }

(***************************************************************************)
(* SpecMandates: the ValidatorMandates of one epoch, sampled at each       *)
(* height.                                                                 *)
(***************************************************************************)
InitMandates ==
    /\ \/ \E config \in MandatesConfigs, stakes \in StakeLists :
             \E stake_per_mandate \in compute_mandate_price(config, stakes) :
                 /\ vm = validator_mandates_new(config, stakes, stake_per_mandate)
                 /\ mret = [op |-> "new", config |-> config, stakes |-> stakes,
                            stake_per_mandate |-> stake_per_mandate]
       \/ /\ vm = Returned(ValidatorMandatesDefault)
          /\ mret = [op |-> "default"]
       \/ /\ vm = Returned(EpochInfoV4Default.validator_mandates)
          /\ mret = [op |-> "epoch_info_v4_default"]
    /\ cc = Parked /\ cret = NoCall
    /\ info = Parked /\ iret = NoCall
    /\ layout = Parked /\ lret = NoCall
    /\ args = Parked /\ ret = NoCall

\* sample at the next height, with a fresh rng.
Sample ==
    /\ vm.returns
    /\ \E shard_ids_for_mandates \in ShuffledShardIds(vm.val.config.num_shards),
          shard_ids_for_partials \in ShuffledShardIds(vm.val.config.num_shards),
          shuffled_mandates \in Rearrangements(vm.val.mandates),
          shuffled_partials \in Rearrangements(vm.val.partials) :
          LET first_draws == [ shard_ids_for_mandates |-> shard_ids_for_mandates,
                               shard_ids_for_partials |-> shard_ids_for_partials,
                               shuffled_mandates |-> shuffled_mandates,
                               shuffled_partials |-> shuffled_partials ]
              maps == StakeAssignmentPerShard(vm.val, first_draws)
          IN  \E validator_shuffles \in ValidatorShuffles(maps),
                 keys_per_shard \in KeyOrdersPerShard(maps) :
                  LET draws == [ shard_ids_for_mandates |-> shard_ids_for_mandates,
                                 shard_ids_for_partials |-> shard_ids_for_partials,
                                 shuffled_mandates |-> shuffled_mandates,
                                 shuffled_partials |-> shuffled_partials,
                                 validator_shuffles |-> validator_shuffles ]
                  IN  mret' = [ op |-> "sample",
                                first_height |-> (mret.op \notin {"sample", "sample_same_rng"}),
                                draws |-> draws,
                                res |-> sample(vm.val, draws, keys_per_shard) ]
    /\ UNCHANGED <<vm, cc, cret, info, iret, layout, lret, args, ret>>

\* sample at the same height in another process: the same ValidatorMandates and
\* the same rng state, HashMaps of its own.
SampleSameRng ==
    /\ vm.returns
    /\ mret.op = "sample"
    /\ \E keys_per_shard \in KeyOrdersPerShard(StakeAssignmentPerShard(vm.val, mret.draws)) :
          mret' = [ op |-> "sample_same_rng", first_height |-> mret.first_height,
                    draws |-> mret.draws, first |-> mret.res,
                    res |-> sample(vm.val, mret.draws, keys_per_shard) ]
    /\ UNCHANGED <<vm, cc, cret, info, iret, layout, lret, args, ret>>

NextMandates ==
    \/ Sample
    \/ SampleSameRng

SpecMandates == InitMandates /\ [][NextMandates]_vars

(***************************************************************************)
(* Properties of the decisions (SpecControl).                              *)
(*                                                                         *)
(* The measures are restated here from the inputs alone, by cross          *)
(* multiplication, so that nothing below reuses an operator of the model.  *)
(***************************************************************************)
FracEq(a, b) == a[1] * b[2] = b[1] * a[2]
FracLe(a, b) == a[1] * b[2] <= b[1] * a[2]
FracLt(a, b) == a[1] * b[2] < b[1] * a[2]

\* min(1, value / max), for max > 0.
MinOne(value, max) == IF value >= max THEN <<1, 1>> ELSE <<value, max>>

\* <<incoming, outgoing, memory, missed>> of a CongestionControl.
Measures(c) ==
    << MinOne(c.info.delayed_receipts_gas, c.config.max_congestion_incoming_gas),
       MinOne(c.info.buffered_receipts_gas, c.config.max_congestion_outgoing_gas),
       MinOne(c.info.receipt_bytes, c.config.max_congestion_memory_consumption),
       IF c.missed_chunks_count <= 1 THEN <<0, 1>>
       ELSE MinOne(c.missed_chunks_count, c.config.max_congestion_missed_chunks) >>

\* max(incoming, outgoing, memory, missed).
Level(c) ==
    LET m == Measures(c)
    IN  m[CHOOSE k \in 1..4 : \A j \in 1..4 : FracLe(m[j], m[k])]

\* C2: congestion_level is the maximum of the four measures min(1, value/max),
\* the missed-chunks measure being 0 up to one missed chunk; a measure whose
\* value reaches its max is exactly 1, and the level lies in [0, 1].
C2_CongestionLevelIsMaxOfMeasures ==
    (cret.op = "congestion_level" /\ cret.res.returns) =>
        LET m == Measures(cc)
            level == cret.res.val
        IN  /\ \A k \in 1..4 : FracLe(m[k], level)
            /\ \E k \in 1..4 : FracEq(m[k], level)
            /\ FracLe(<<0, 1>>, level) /\ FracLe(level, <<1, 1>>)
            /\ ( \/ cc.info.delayed_receipts_gas >= cc.config.max_congestion_incoming_gas
                 \/ cc.info.buffered_receipts_gas >= cc.config.max_congestion_outgoing_gas
                 \/ cc.info.receipt_bytes >= cc.config.max_congestion_memory_consumption
                 \/ ( /\ cc.missed_chunks_count > 1
                      /\ cc.missed_chunks_count >= cc.config.max_congestion_missed_chunks ) )
               => level = <<1, 1>>

\* One missed chunk counts for nothing: the level is the 3/4 of another measure.
C2_Witness ==
    /\ cret.op = "congestion_level" /\ cret.res.returns
    /\ cc.missed_chunks_count = 1
    /\ cc.config.max_congestion_missed_chunks = 2
    /\ cret.res.val = <<3, 4>>

C4_AcceptsIffBelowThreshold ==
    (cret.op = "shard_accepts_transactions" /\ cret.res.returns) =>
        /\ congestion_level(cc).returns
        /\ cret.res.val.kind = "Yes" <=>
              FracLt(congestion_level(cc).val, cc.config.reject_tx_congestion_threshold)
        /\ cret.res.val.kind \in { "Yes", "MissedChunks", "IncomingCongestion",
                                   "OutgoingCongestion", "MemoryCongestion" }

\* A level equal to the threshold is rejected.
C4_Witness ==
    /\ cret.op = "shard_accepts_transactions" /\ cret.res.returns
    /\ cret.res.val.kind # "Yes"
    /\ FracEq(Level(cc), cc.config.reject_tx_congestion_threshold)
    /\ FracLt(Level(cc), <<1, 1>>)

\* C5: a rejection names the first of missed chunks, incoming, outgoing, memory
\* whose measure reaches the level.
C5_RejectReasonPriority ==
    (cret.op = "shard_accepts_transactions" /\ cret.res.returns
        /\ cret.res.val.kind # "Yes") =>
        LET m == Measures(cc)
            level == Level(cc)
            kind == cret.res.val.kind
        IN  /\ FracEq(m[4], level) <=> kind = "MissedChunks"
            /\ kind = "IncomingCongestion" <=>
                  (FracLt(m[4], level) /\ FracEq(m[1], level))
            /\ kind = "OutgoingCongestion" <=>
                  (FracLt(m[4], level) /\ FracLt(m[1], level) /\ FracEq(m[2], level))
            /\ kind = "MemoryCongestion" <=>
                  (FracLt(m[4], level) /\ FracLt(m[1], level) /\ FracLt(m[2], level))
            /\ kind = "MemoryCongestion" =>
                  \A k \in {1, 2, 4} : FracLt(m[k], m[3])

\* Missed chunks and incoming gas tie at the level: missed chunks are named.
C5_Witness ==
    /\ cret.op = "shard_accepts_transactions" /\ cret.res.returns
    /\ cret.res.val.kind = "MissedChunks"
    /\ FracEq(Measures(cc)[1], Level(cc))
    /\ FracLt(Measures(cc)[3], Level(cc))

(***************************************************************************)
(* Properties of the CongestionInfo mutators (SpecInfo).                   *)
(***************************************************************************)
\* The counter a mutator works on, its largest value, and the sign of the change.
CounterOf(op) ==
    IF op \in {"add_receipt_bytes", "remove_receipt_bytes"} THEN "receipt_bytes"
    ELSE IF op \in {"add_delayed_receipt_gas", "remove_delayed_receipt_gas"}
    THEN "delayed_receipts_gas"
    ELSE "buffered_receipts_gas"

CounterMax(op) ==
    IF op \in {"add_receipt_bytes", "remove_receipt_bytes"} THEN ScaledU64Max
    ELSE ScaledU128Max

IsAdd(op) ==
    op \in {"add_receipt_bytes", "add_delayed_receipt_gas", "add_buffered_receipt_gas"}

Mutators ==
    { "add_receipt_bytes", "remove_receipt_bytes", "add_delayed_receipt_gas",
      "remove_delayed_receipt_gas", "add_buffered_receipt_gas",
      "remove_buffered_receipt_gas" }

\* C6: a mutator returns UnexpectedIntegerOverflow exactly when the exact sum or
\* difference leaves the counter's range, stores the exact result otherwise, and
\* never stores a wrapped or saturated value.
C6_MutatorsAreChecked ==
    iret.op \in Mutators =>
        LET f == CounterOf(iret.op)
            exact == IF IsAdd(iret.op) THEN iret.before[f] + iret.amount
                                       ELSE iret.before[f] - iret.amount
            inRange == 0 <= exact /\ exact <= CounterMax(iret.op)
        IN  /\ iret.res.ok <=> inRange
            /\ ~iret.res.ok =>
                  /\ iret.res.err = "UnexpectedIntegerOverflow"
                  /\ info[f] = iret.before[f]
            /\ iret.res.ok => info[f] = exact

\* add_receipt_bytes at the largest u64 with a positive amount: it fails.
C6_Witness ==
    /\ iret.op = "add_receipt_bytes"
    /\ iret.before.receipt_bytes = ScaledU64Max
    /\ iret.amount > 0
    /\ ~iret.res.ok
    /\ info.receipt_bytes = ScaledU64Max

\* C7: after finalize_allowed_shard the allowed shard, read back as a ShardId,
\* is all_shards[seed mod len], or own_shard when all_shards is empty.
C7_AllowedShardIdentifiesChosenShard ==
    iret.op = "finalize_allowed_shard" =>
        allowed_shard(info) =
            IF Len(iret.all_shards) = 0 THEN iret.own_shard
            ELSE iret.all_shards[(iret.congestion_seed % Len(iret.all_shards)) + 1]

(***************************************************************************)
(* Properties of account routing (SpecLayout).                             *)
(***************************************************************************)
AccountLe(a, b) == a = b \/ StrLt(a, b)

\* The boundary accounts are sorted ascending.
SortedBoundaries(b) == \A k \in 1..(Len(b) - 1) : AccountLe(b[k], b[k + 1])

\* C1: with sorted boundary accounts, account_id_to_shard_id is the number of
\* boundaries <= the account: an account equal to a boundary goes to the shard
\* that starts there, the result is below num_shards, and the routing is
\* monotone in the account.
C1_RoutingCountsBoundaries ==
    (lret.op = "account_id_to_shard_id" /\ SortedBoundaries(layout.val.boundary_accounts)) =>
        LET b == layout.val.boundary_accounts
            a == lret.account_id
        IN  /\ lret.res = Cardinality({ k \in DOMAIN b : AccountLe(b[k], a) })
            /\ \A k \in DOMAIN b :
                  (a = b[k] /\ (k = Len(b) \/ b[k] # b[k + 1])) => lret.res = k
            /\ lret.res < Len(b) + 1
            /\ \A a2 \in Accounts :
                  /\ AccountLe(a, a2) => lret.res <= account_id_to_shard_id(a2, layout.val)
                  /\ AccountLe(a2, a) => account_id_to_shard_id(a2, layout.val) <= lret.res

\* An account equal to the first of two distinct boundaries goes to shard 1.
C1_Witness ==
    /\ lret.op = "account_id_to_shard_id"
    /\ Len(layout.val.boundary_accounts) = 2
    /\ StrLt(layout.val.boundary_accounts[1], layout.val.boundary_accounts[2])
    /\ lret.account_id = layout.val.boundary_accounts[1]
    /\ lret.res = 1


(***************************************************************************)
(* Properties of the validator mandates (SpecMandates).                    *)
(***************************************************************************)
\* The ids of the validators ValidatorMandates::new was given.
ValidatorIds == 0..(Len(mret.stakes) - 1)

RECURSIVE SumOfWeights(_, _)
\* The sum of the stakes that the entries of `entries` hold for validator v.
SumOfWeights(entries, v) ==
    IF entries = <<>> THEN 0
    ELSE (IF Head(entries)[1] = v THEN Head(entries)[2] ELSE 0)
         + SumOfWeights(Tail(entries), v)

RECURSIVE CreditedStake(_, _)
\* The stake an assignment credits to validator v, summed over the shards.
CreditedStake(assignment, v) ==
    IF assignment = <<>> THEN 0
    ELSE SumOfWeights(Head(assignment), v) + CreditedStake(Tail(assignment), v)

\* The validators that hold a mandate or a partial mandate.
Holders == Range(vm.val.mandates) \cup { vm.val.partials[k][1] : k \in DOMAIN vm.val.partials }

Sampled == mret.op \in {"sample", "sample_same_rng"}

\* C8: in the result of every sample() call on a ValidatorMandates, at any height
\* of the epoch and for any draws, the stake credited to a validator summed over
\* the shards is (its occurrences in mandates) * stake_per_mandate + (the sum of
\* its partial weights), and nobody else is credited.
C8_SampleConservesStake ==
    Sampled =>
        /\ Len(mret.res) = vm.val.config.num_shards
        /\ \A v \in Holders :
              CreditedStake(mret.res, v)
                = Count(vm.val.mandates, v) * vm.val.stake_per_mandate
                  + SumOfWeights(vm.val.partials, v)
        /\ \A s \in DOMAIN mret.res : \A k \in DOMAIN mret.res[s] :
              /\ mret.res[s][k][1] \in Holders
              /\ \A j \in DOMAIN mret.res[s] : j # k => mret.res[s][j][1] # mret.res[s][k][1]

\* A later sample of the epoch, over two shards, credits a validator's mandate
\* and its partial mandate in one shard.
C8_Witness ==
    /\ mret.op = "sample" /\ ~mret.first_height
    /\ vm.val.config.num_shards = 2
    /\ \E v \in Holders :
          /\ Count(vm.val.mandates, v) >= 1
          /\ SumOfWeights(vm.val.partials, v) >= 1
          /\ \E s \in DOMAIN mret.res :
                SumOfWeights(mret.res[s], v) > vm.val.stake_per_mandate

\* C9: a second run of sample() on the same ValidatorMandates with the same draws
\* returns the same assignment as the first, the order inside each shard
\* included, whatever order the HashMaps of the two runs iterate in.
C9_SameDrawsSameAssignment ==
    mret.op = "sample_same_rng" => mret.res = mret.first

\* The second run returned, and a shard holds two validators which the per-shard
\* shuffle left in descending order.
C9_Witness ==
    /\ mret.op = "sample_same_rng"
    /\ \E s \in DOMAIN mret.res :
          /\ Len(mret.res[s]) = 2
          /\ mret.res[s][1][1] > mret.res[s][2][1]
          /\ mret.draws.validator_shuffles[s] = <<2, 1>>

C11_ParentAndChildrenAreInverse ==
    (layout.returns /\ layout.val.shards_split_map.some) =>
        /\ (lret.op = "get_parent_shard_id" /\ lret.res.returns /\ lret.res.val.ok) =>
              LET children == get_children_shards_ids(layout.val, lret.res.val.val)
              IN  /\ children.some
                  /\ \E k \in DOMAIN children.val : children.val[k] = lret.shard_id
        /\ (lret.op = "get_children_shards_ids" /\ lret.res.some) =>
              \A k \in DOMAIN lret.res.val :
                  get_parent_shard_id(layout.val, lret.res.val[k])
                    = Returned(OkShardId(lret.parent_shard_id))

\* The second parent of a layout has two children.
C11_Witness ==
    /\ layout.returns /\ layout.val.shards_split_map.some
    /\ lret.op = "get_children_shards_ids"
    /\ lret.parent_shard_id = 1
    /\ lret.res.some /\ Len(lret.res.val) = 2

\* How many times the child lists of a split map name shard_id.
ChildCount(split, shard_id) ==
    Cardinality({ pk \in (DOMAIN split) \X (0..MaxBoundaries + 2) :
                    pk[2] \in DOMAIN split[pk[1]] /\ split[pk[1]][pk[2]] = shard_id })

C13_InvalidShardIdComesFirst ==
    lret.op = "get_parent_shard_id" =>
        LET invalid == lret.shard_id >= num_shards(layout.val)
        IN  /\ invalid => lret.res = Returned(InvalidShardIdError(lret.shard_id))
            /\ (~invalid /\ layout.val.to_parent_shard_map.some) =>
                  lret.res.returns /\ lret.res.val.ok
            /\ (~invalid /\ ~layout.val.to_parent_shard_map.some) => ~lret.res.returns

\* An invalid shard id on a layout with no parent map: the error, no panic.
C13_Witness ==
    /\ lret.op = "get_parent_shard_id"
    /\ ~layout.val.to_parent_shard_map.some
    /\ lret.shard_id >= num_shards(layout.val)
    /\ lret.res.returns /\ ~lret.res.val.ok

\* The ShardUIds the last call returned.
UIdsObtained ==
    IF lret.op \in {"from_shard_id_and_layout", "account_id_to_shard_uid"} /\ lret.res.returns
    THEN {lret.res.val}
    ELSE IF lret.op = "shard_uids" /\ lret.res.returns
    THEN Range(lret.res.val)
    ELSE IF lret.op = "get_children_shards_uids" /\ lret.res.returns /\ lret.res.val.some
    THEN Range(lret.res.val.val)
    ELSE {}

\* Layouts of another version than the one in use, one of each number of shards.
OtherLayouts ==
    { v1([k \in 1..n |-> <<1>>], NoneVec, other).val :
        n \in 0..MaxBoundaries, other \in ShardVersions \ {layout.val.version} }

\* C16: every ShardUId obtained from a layout carries the layout's version and a
\* shard id below num_shards; it differs from every ShardUId of a layout of
\* another version and is ordered against it by version; shard_uids yields
\* num_shards values in strictly ascending order.
C16_ShardUIdsBelongToTheirLayout ==
    layout.returns =>
        /\ \A u \in UIdsObtained :
              /\ u.version = layout.val.version
              /\ u.shard_id < num_shards(layout.val)
              /\ \A l \in OtherLayouts : \A k \in DOMAIN shard_uids(l).val :
                    LET other == shard_uids(l).val[k]
                    IN  /\ other # u
                        /\ ShardUIdLt(other, u) <=> l.version < layout.val.version
                        /\ ShardUIdLt(u, other) <=> layout.val.version < l.version
        /\ lret.op = "shard_uids" =>
              /\ lret.res.returns
              /\ Len(lret.res.val) = num_shards(layout.val)
              /\ \A k \in 1..(Len(lret.res.val) - 1) :
                    ShardUIdLt(lret.res.val[k], lret.res.val[k + 1])

\* shard_uids of a layout of version 2 with three shards.
C16_Witness ==
    /\ layout.returns /\ layout.val.version = 2
    /\ lret.op = "shard_uids" /\ lret.res.returns
    /\ Len(lret.res.val) = 3

(***************************************************************************)
(* Properties of the ShardUId conversions (SpecShardUId).                  *)
(***************************************************************************)
\* The number that bytes hold, the first byte being the lowest.
RECURSIVE LittleEndianValue(_)
LittleEndianValue(bytes) ==
    IF bytes = <<>> THEN 0 ELSE Head(bytes) + 256 * LittleEndianValue(Tail(bytes))

\* The number that decimal digits write.
RECURSIVE DecimalValue(_)
DecimalValue(chars) ==
    IF chars = <<>> THEN 0
    ELSE 10 * DecimalValue(SubSeq(chars, 1, Len(chars) - 1)) + DigitOf(chars[Len(chars)])

\* chars writes x in decimal, without sign or leading zero.
WritesNumber(chars, x) ==
    /\ Len(chars) >= 1
    /\ \A k \in DOMAIN chars : IsDigit(chars[k])
    /\ Len(chars) > 1 => chars[1] # "0"
    /\ DecimalValue(chars) = x

\* C14: to_bytes is the 4 little-endian bytes of version, then those of
\* shard_id, and try_from reads them back as the same ShardUId; the string form
\* is "s{shard_id}.v{version}" and parses back to the same ShardUId; try_from
\* is an error for every byte string whose length is not 8.
C14_ShardUIdRoundTrips ==
    /\ ret.op = "to_bytes" =>
          /\ Len(ret.res) = 8
          /\ \A k \in 1..8 : ret.res[k] \in 0..255
          /\ LittleEndianValue(SubSeq(ret.res, 1, 4)) = args.version
          /\ LittleEndianValue(SubSeq(ret.res, 5, 8)) = args.shard_id
    /\ ret.op = "try_from" =>
          /\ ret.bytes = to_bytes(args) => ret.res.ok /\ ret.res.val = args
          /\ Len(ret.bytes) # 8 => ~ret.res.ok
    /\ ret.op = "to_string" =>
          \E dot \in DOMAIN ret.res :
              /\ ret.res[1] = "s"
              /\ WritesNumber(SubSeq(ret.res, 2, dot - 1), args.shard_id)
              /\ ret.res[dot] = "."
              /\ dot < Len(ret.res) /\ ret.res[dot + 1] = "v"
              /\ WritesNumber(SubSeq(ret.res, dot + 2, Len(ret.res)), args.version)
    /\ (ret.op = "from_str" /\ ret.chars = to_string(args)) =>
          ret.res.ok /\ ret.res.val = args

\* The string of a ShardUId whose fields differ and take several digits and
\* bytes parsed back to it.
C14_Witness ==
    /\ ret.op = "from_str" /\ ret.chars = to_string(args)
    /\ ret.res.ok /\ ret.res.val = args
    /\ args.shard_id = 65536 /\ args.version = 2147483647
    /\ try_from(to_bytes(args)).val = args

\* C15: next_shard_prefix adds one to the 8 bytes read as a big-endian counter:
\* the trailing 0xFF bytes become 0, the last other byte is incremented, the
\* bytes before it stay, so that no 8-byte string lies between the input and
\* the result; on eight 0xFF bytes it panics.
C15_NextShardPrefixIsSuccessor ==
    ret.op = "next_shard_prefix" =>
        IF \A k \in 1..8 : ret.bytes[k] = 255
        THEN ~ret.res.returns
        ELSE /\ ret.res.returns
             /\ Len(ret.res.val) = 8
             /\ \E j \in 1..8 :
                   /\ ret.bytes[j] # 255
                   /\ ret.res.val[j] = ret.bytes[j] + 1
                   /\ \A k \in 1..(j - 1) : ret.res.val[k] = ret.bytes[k]
                   /\ \A k \in (j + 1)..8 : ret.bytes[k] = 255 /\ ret.res.val[k] = 0
             /\ StrLt(ret.bytes, ret.res.val)
             /\ \A between \in Prefixes \cup {to_bytes(args)} :
                   ~(StrLt(ret.bytes, between) /\ StrLt(between, ret.res.val))

\* A carry over two trailing 0xFF bytes into a byte that is not the first.
C15_Witness ==
    /\ ret.op = "next_shard_prefix" /\ ret.res.returns
    /\ ret.bytes[8] = 255 /\ ret.bytes[7] = 255
    /\ ret.bytes[6] = 254 /\ ret.res.val[6] = 255
    /\ ret.bytes[1] = 1

RoundHalfToEven(n, d) ==
    LET floor == n \div d
    IN  IF 2 * (n % d) < d THEN floor
        ELSE IF 2 * (n % d) > d THEN floor + 1
        ELSE IF floor % 2 = 0 THEN floor ELSE floor + 1

\* C18: mix(left, right, ratio) is left * (1 - ratio) + right * ratio rounded
\* to the nearest integer, a half to the even one; it lies between left and
\* right, and it is left at ratio 0 and right at ratio 1.
C18_MixRoundsHalfToEven ==
    ret.op = "mix" =>
        LET n == args.ratio[1]
            d == args.ratio[2]
        IN  /\ ret.res = RoundHalfToEven(args.left * (d - n) + args.right * n, d)
            /\ ret.res >= IF args.left < args.right THEN args.left ELSE args.right
            /\ ret.res <= IF args.left < args.right THEN args.right ELSE args.left
            /\ n = 0 => ret.res = args.left
            /\ n = d => ret.res = args.right

\* C20: with one of the four congestion thresholds at zero, congestion_level,
\* outgoing_gas_limit and shard_accepts_transactions never return a value.
C20_ZeroThresholdNeverReturns ==
    ( /\ cret.op \in {"congestion_level", "outgoing_gas_limit", "shard_accepts_transactions"}
      /\ \E f \in ThresholdFields : cc.config[f] = 0 )
        => ~cret.res.returns

(***************************************************************************)
(* Properties of the mandates configuration (SpecMandates).                *)
(***************************************************************************)
\* C19: the config inside every ValidatorMandates that exists, however it was
\* obtained (new, Default, the default EpochInfoV4), has num_shards > 0.
C19_ConfigHasShards ==
    vm.returns => vm.val.config.num_shards > 0

(***************************************************************************)
(* Properties of ShardUId construction (SpecLayout).                       *)
(***************************************************************************)
\* C21: from_shard_id_and_layout with a shard id that is not below num_shards
\* returns the InvalidShardId error to its caller: it returns, and what it
\* returns is the error and no ShardUId.
C21_InvalidShardIdIsReturned ==
    ( /\ lret.op = "from_shard_id_and_layout"
      /\ lret.shard_id >= num_shards(layout.val) )
        => /\ lret.res.returns
           /\ lret.res.val = InvalidShardIdError(lret.shard_id)

(***************************************************************************)
(* EpochInfo: the seeds of block and chunk production, and the samplers.   *)
(***************************************************************************)
\* Largest block height of a call (the height Pow256(1) is added to it, whose
\* low byte is that of height 0).
MaxHeight == 1
\* Largest shard id of a call.
MaxShard == 2

\* RngSeed = [u8; 32]
RngSeedLen == 32

RngSeeds == { [k \in 1..RngSeedLen |-> b] : b \in 0..1 }

BlockHeights == 0..MaxHeight \cup {Pow256(1)}

\* u64::to_le_bytes, of a value below 2^31: the four high bytes are zero.
u64_to_le_bytes(x) ==
    [k \in 1..8 |-> IF k > 4 THEN 0 ELSE (x \div Pow256(k - 1)) % (U8Max + 1)]

\* A slip: the bytes of a u64 with its trailing zero bytes left out.
u64_to_le_bytes_trimmed(x) ==
    IF x = 0 THEN << >>
    ELSE IF x < Pow256(1) THEN <<x>>
    ELSE <<x % (U8Max + 1), x \div (U8Max + 1)>>

\* The bytes a u64 contributes to a seed buffer.
HeightBytes(x) == u64_to_le_bytes(x)

\* hash: an injective function of the buffer, the digest stands for its input.
hash(buffer) == [digest_of |-> buffer]

\* The protocol versions, told apart by the features they enable.
ProtocolVersions ==
    [SynchronizeBlockChunkProduction : BOOLEAN, ChunkOnlyProducers : BOOLEAN]

\* checked_feature!("stable", feature, protocol_version)
checked_feature(feature, protocol_version) == protocol_version[feature]

\* EpochInfo::block_produce_seed
block_produce_seed(height, seed) == hash(seed \o HeightBytes(height))

\* EpochInfo::chunk_produce_seed
chunk_produce_seed(protocol_version, seed, height, shard_id) ==
    IF /\ checked_feature("SynchronizeBlockChunkProduction", protocol_version)
       /\ ~checked_feature("ChunkOnlyProducers", protocol_version)
    THEN block_produce_seed(height, seed)
    ELSE hash(seed \o HeightBytes(height) \o HeightBytes(shard_id))

RECURSIVE SumSeq(_)
SumSeq(seq) == IF seq = << >> THEN 0 ELSE seq[1] + SumSeq(Tail(seq))

\* WeightedIndex::new: the sampler of a list of weights.
WeightedIndexNew(weights) == [weights |-> weights]

\* WeightedIndex::sample: the index (from 0) the seed draws, by cumulative weight.
WeightedIndexSample(sampler, seed) ==
    LET w == sampler.weights
        r == SumSeq(seed.digest_of) % SumSeq(w)
    IN  CHOOSE i \in 0..(Len(w) - 1) :
            /\ SumSeq(SubSeq(w, 1, i)) <= r
            /\ r < SumSeq(SubSeq(w, 1, i + 1))

\* stake_weights in EpochInfo::new
stake_weights(validators, ids) ==
    WeightedIndexNew([k \in DOMAIN ids |-> validators[ids[k] + 1]])

\* EpochInfo::new, with the fields that take part in sampling.
EpochInfoNew(validators, block_producers_settlement, chunk_producers_settlement, protocol_version, rng_seed) ==
    [ validators |-> validators,
      block_producers_settlement |-> block_producers_settlement,
      chunk_producers_settlement |-> chunk_producers_settlement,
      protocol_version |-> protocol_version,
      rng_seed |-> rng_seed,
      block_producers_sampler |-> stake_weights(validators, block_producers_settlement),
      chunk_producers_sampler |->
          [s \in DOMAIN chunk_producers_settlement |->
              stake_weights(validators, chunk_producers_settlement[s])] ]

\* EpochInfo::sample_block_producer
sample_block_producer(e, height) ==
    LET seed == block_produce_seed(height, e.rng_seed)
    IN  e.block_producers_settlement[WeightedIndexSample(e.block_producers_sampler, seed) + 1]

\* EpochInfo::sample_chunk_producer
sample_chunk_producer(e, height, shard_id) ==
    LET seed == chunk_produce_seed(e.protocol_version, e.rng_seed, height, shard_id)
    IN  IF shard_id >= Len(e.chunk_producers_sampler) THEN None
        ELSE LET drawn == WeightedIndexSample(e.chunk_producers_sampler[shard_id + 1], seed)
             IN  Some(e.chunk_producers_settlement[shard_id + 1][drawn + 1])

\* The settlements of two validators: each a non-empty list of validator ids.
Settlements == { <<0>>, <<1>>, <<0, 1>>, <<1, 0>> }

\* The stakes of the two validators of an epoch.
ValidatorStakes == { <<1, 1>>, <<1, 2>>, <<2, 1>> }

EpochInfos ==
    { EpochInfoNew(validators, <<0, 1>>, chunks, pv, seed) :
        validators \in ValidatorStakes,
        chunks \in { <<a>> : a \in Settlements }
                     \cup { <<a, b>> : a \in Settlements, b \in Settlements },
        pv \in ProtocolVersions,
        seed \in RngSeeds }

InitEpoch ==
    /\ args \in EpochInfos
    /\ ret = NoCall
    /\ cc = Parked /\ cret = NoCall
    /\ info = Parked /\ iret = NoCall
    /\ layout = Parked /\ lret = NoCall
    /\ vm = Parked /\ mret = NoCall

BlockProduceSeed ==
    /\ \E height \in BlockHeights :
         ret' = [op |-> "block_produce_seed", height |-> height,
                 res |-> block_produce_seed(height, args.rng_seed)]
    /\ UNCHANGED <<args, cc, cret, info, iret, layout, lret, vm, mret>>

ChunkProduceSeed ==
    /\ \E height \in BlockHeights, shard_id \in 0..MaxShard :
         ret' = [op |-> "chunk_produce_seed", height |-> height, shard_id |-> shard_id,
                 res |-> chunk_produce_seed(args.protocol_version, args.rng_seed,
                                            height, shard_id)]
    /\ UNCHANGED <<args, cc, cret, info, iret, layout, lret, vm, mret>>

SampleBlockProducer ==
    /\ \E height \in BlockHeights :
         ret' = [op |-> "sample_block_producer", height |-> height,
                 res |-> sample_block_producer(args, height)]
    /\ UNCHANGED <<args, cc, cret, info, iret, layout, lret, vm, mret>>

SampleChunkProducer ==
    /\ \E height \in BlockHeights, shard_id \in 0..MaxShard :
         ret' = [op |-> "sample_chunk_producer", height |-> height, shard_id |-> shard_id,
                 res |-> sample_chunk_producer(args, height, shard_id)]
    /\ UNCHANGED <<args, cc, cret, info, iret, layout, lret, vm, mret>>

NextEpoch ==
    \/ BlockProduceSeed
    \/ ChunkProduceSeed
    \/ SampleBlockProducer
    \/ SampleChunkProducer

SpecEpoch == InitEpoch /\ [][NextEpoch]_vars

(***************************************************************************)
(* Properties of the production seeds (SpecEpoch).                         *)
(***************************************************************************)
\* The version enables synchronized block and chunk production and not yet
\* chunk-only producers.
Synchronized(pv) ==
    /\ checked_feature("SynchronizeBlockChunkProduction", pv)
    /\ ~checked_feature("ChunkOnlyProducers", pv)

\* C22: with the hash injective, block_produce_seed(height, seed) is the hash
\* of seed || height (8 bytes, little-endian); chunk_produce_seed is the block
\* seed of the height for every shard when the version is synchronized, and
\* otherwise the hash of seed || height || shard_id, which then differs for any
\* two different (height, shard_id) pairs and from every block seed.
C22_SeedsOfProduction ==
    /\ ret.op = "block_produce_seed"
         => /\ ret.res = hash(args.rng_seed \o u64_to_le_bytes(ret.height))
            /\ Len(ret.res.digest_of) = RngSeedLen + 8
    /\ ret.op = "chunk_produce_seed"
         => IF Synchronized(args.protocol_version)
            THEN ret.res = block_produce_seed(ret.height, args.rng_seed)
            ELSE /\ ret.res = hash(args.rng_seed \o u64_to_le_bytes(ret.height)
                                     \o u64_to_le_bytes(ret.shard_id))
                 /\ \A h \in BlockHeights :
                      /\ ret.res # block_produce_seed(h, args.rng_seed)
                      /\ \A s \in 0..MaxShard :
                           <<h, s>> # <<ret.height, ret.shard_id>>
                             => ret.res # chunk_produce_seed(args.protocol_version,
                                                             args.rng_seed, h, s)

C22_Witness ==
    /\ ret.op = "chunk_produce_seed"
    /\ ~Synchronized(args.protocol_version)
    /\ ret.height = Pow256(1)
    /\ ret.shard_id = 1

\* C25: in a synchronized version, sample_chunk_producer gives the same
\* validator for a height whichever shard with a settlement is asked for.
C25_OneProducerForAllShards ==
    ( /\ ret.op = "sample_chunk_producer"
      /\ Synchronized(args.protocol_version)
      /\ ret.res.some )
        => \A s \in 0..MaxShard :
             sample_chunk_producer(args, ret.height, s).some
               => sample_chunk_producer(args, ret.height, s) = ret.res

(***************************************************************************)
(* Properties of the allowed shard under full congestion (SpecInfo).       *)
(***************************************************************************)
\* The CongestionControls at congestion level 1 built from the info i whose
\* configuration lets the allowed shard send.
FullyCongested(i) ==
    { c \in { NewCongestionControl(config, i, missed) :
                config \in Configs, missed \in 0..MaxMissed } :
        /\ congestion_level(c) = Returned(F64One)
        /\ c.config.allowed_shard_outgoing_gas > 0 }

\* C23: after finalize_allowed_shard over a non-empty list of distinct shards,
\* a fully congested CongestionControl built from the info gives a non-zero
\* outgoing gas limit to exactly one listed shard, the one at index
\* seed mod len, and the big size limit to that shard and to no other.
C23_OneListedShardMayForward ==
    ( /\ iret.op = "finalize_allowed_shard"
      /\ Len(iret.all_shards) > 0 )
        => LET chosen == iret.all_shards[(iret.congestion_seed % Len(iret.all_shards)) + 1]
           IN  \A c \in FullyCongested(info) : \A s \in Range(iret.all_shards) :
                 /\ outgoing_gas_limit(c, s).val # 0 <=> s = chosen
                 /\ outgoing_size_limit(c, s).val = c.config.outgoing_receipts_big_size_limit
                      <=> s = chosen

(***************************************************************************)
(* Properties of the CongestionInfo mutators as a whole (SpecInfo).        *)
(***************************************************************************)
\* C28: a mutator that returns an error leaves the whole info as it was before
\* the call: every counter and the allowed shard.
C28_FailedMutatorChangesNothing ==
    (iret.op \in Mutators /\ ~iret.res.ok) => info = iret.before

\* A removal fails on an info that has other counters set and a non-zero
\* allowed shard.
C28_Witness ==
    /\ iret.op = "remove_delayed_receipt_gas"
    /\ ~iret.res.ok
    /\ iret.before.delayed_receipts_gas > 0
    /\ iret.before.receipt_bytes > 0
    /\ iret.before.allowed_shard # 0

Counters == {"delayed_receipts_gas", "buffered_receipts_gas", "receipt_bytes"}

\* What the call recorded in r adds to its counter: nothing when it failed.
Delta(r) ==
    IF ~r.res.ok THEN 0 ELSE IF IsAdd(r.op) THEN r.amount ELSE 0 - r.amount

\* C29: every call moves its own counter by the amount it added or removed
\* when it succeeded and by nothing when it failed, and leaves the other
\* counters and the allowed shard alone; set_allowed_shard and
\* finalize_allowed_shard change the allowed shard only.  From the default,
\* each counter is therefore the sum of what was added less what was removed.
C29_CallsTouchTheirOwnField ==
    [][ /\ iret'.op \in Mutators =>
             /\ info'[CounterOf(iret'.op)] = info[CounterOf(iret'.op)] + Delta(iret')
             /\ \A g \in Counters \ {CounterOf(iret'.op)} : info'[g] = info[g]
             /\ info'.allowed_shard = info.allowed_shard
        /\ iret'.op \in {"set_allowed_shard", "finalize_allowed_shard"} =>
             \A g \in Counters : info'[g] = info[g] ]_vars

\* A successful removal from an info whose other counters and allowed shard
\* are set.
C29_Witness ==
    /\ iret.op = "remove_buffered_receipt_gas"
    /\ iret.res.ok
    /\ iret.amount > 0
    /\ info.buffered_receipts_gas > 0
    /\ info.delayed_receipts_gas > 0
    /\ info.receipt_bytes > 0
    /\ info.allowed_shard # 0

(***************************************************************************)
(* Properties of the spread of a sample over the shards (SpecMandates).    *)
(***************************************************************************)
\* The indices (from 1) of the shuffled list `shuffled` that go to the shard at
\* position p (from 1): index i goes to the alias of shard (i - 1) mod n.
IndicesAt(shuffled, aliases, p) ==
    { i \in DOMAIN shuffled : aliases[((i - 1) % Len(aliases)) + 1] + 1 = p }

\* k is floor(total / n) or ceil(total / n).
EvenShare(k, total, n) == k \in { total \div n, (total + n - 1) \div n }

RECURSIVE SumOfPartials(_, _, _)
\* The weights of the partials of validator x among the indices js.
SumOfPartials(shuffled_partials, js, x) ==
    IF js = {} THEN 0
    ELSE LET j == CHOOSE i \in js : TRUE
         IN  (IF shuffled_partials[j][1] = x THEN shuffled_partials[j][2] ELSE 0)
             + SumOfPartials(shuffled_partials, js \ {j}, x)

\* The stake validator x is due at position p: a whole mandate for each of its
\* mandates that go there, and the weight of each of its partials that do.
StakeAt(p, x) ==
    LET d == mret.draws
        mine == { i \in IndicesAt(d.shuffled_mandates, d.shard_ids_for_mandates, p) :
                    d.shuffled_mandates[i] = x }
    IN  Cardinality(mine) * vm.val.stake_per_mandate
        + SumOfPartials(d.shuffled_partials,
                        IndicesAt(d.shuffled_partials, d.shard_ids_for_partials, p), x)

\* The validators with a mandate or a partial that goes to position p.
ValidatorsAt(p) ==
    LET d == mret.draws
    IN  { d.shuffled_mandates[i] :
            i \in IndicesAt(d.shuffled_mandates, d.shard_ids_for_mandates, p) }
        \cup { d.shuffled_partials[j][1] :
            j \in IndicesAt(d.shuffled_partials, d.shard_ids_for_partials, p) }

\* C24: sample() returns one vector per shard; the shard at the alias of s gets
\* the shuffled mandates (and partials) at the indices i with i mod n = s and no
\* others, so each shard is credited floor(M/n) or ceil(M/n) whole mandates and
\* floor(P/n) or ceil(P/n) partials; a validator id appears at most once in a
\* shard's vector.
C24_SampleSpreadsEvenly ==
    Sampled =>
        LET n == vm.val.config.num_shards
            d == mret.draws
        IN  /\ Len(mret.res) = n
            /\ \A p \in 1..n :
                 /\ EvenShare(Cardinality(IndicesAt(d.shuffled_mandates,
                                                    d.shard_ids_for_mandates, p)),
                              Len(vm.val.mandates), n)
                 /\ EvenShare(Cardinality(IndicesAt(d.shuffled_partials,
                                                    d.shard_ids_for_partials, p)),
                              Len(vm.val.partials), n)
                 /\ { mret.res[p][k][1] : k \in DOMAIN mret.res[p] } = ValidatorsAt(p)
                 /\ Len(mret.res[p]) = Cardinality(ValidatorsAt(p))
                 /\ \A k \in DOMAIN mret.res[p] :
                      mret.res[p][k][2] = StakeAt(p, mret.res[p][k][1])

\* Two shards, one mandate and two partials, the shard ids swapped for the
\* mandates: the one mandate goes to the second shard, where its validator is
\* also credited its partial, and the first shard holds the other partial.
C24_Witness ==
    /\ mret.op = "sample"
    /\ vm.val.config.num_shards = 2
    /\ Len(vm.val.mandates) = 1
    /\ Len(vm.val.partials) = 2
    /\ mret.draws.shard_ids_for_mandates = <<1, 0>>
    /\ Len(mret.res[1]) = 1
    /\ \E k \in DOMAIN mret.res[2] : mret.res[2][k][2] > vm.val.stake_per_mandate

(***************************************************************************)
(* Properties of the panics of ValidatorMandates::new (SpecMandates).      *)
(***************************************************************************)
RECURSIVE WholeMandates(_, _)
\* The sum over the validators of floor(stake / price).
WholeMandates(stakes, price) ==
    IF stakes = <<>> THEN 0
    ELSE (Head(stakes) \div price) + WholeMandates(Tail(stakes), price)

\* Some validator's mandate count at this price does not fit u16.
CountOverflows(stakes, price) ==
    price # 0 /\ \E k \in DOMAIN stakes : stakes[k] \div price > U16Max

MaxTime == 2
\* Largest protocol version (versions are counted from 1).
MaxVersion == 3
\* Longest schedule.
MaxSchedule == 3

ScheduleEntries == (0..MaxTime) \X (1..MaxVersion)

\* ProtocolUpgradeVotingScheduleRaw = Vec<(DateTime<Utc>, ProtocolVersion)>
RawSchedules == UNION { [1..n -> ScheduleEntries] : n \in 0..MaxSchedule }

\* ProtocolUpgradeVotingSchedule { client_protocol_version, schedule }
VotingSchedule(client_protocol_version, schedule) ==
    [client_protocol_version |-> client_protocol_version, schedule |-> schedule]

\* ProtocolUpgradeVotingSchedule::new_immediate
new_immediate(client_protocol_version) == VotingSchedule(client_protocol_version, << >>)

\* Result<ProtocolUpgradeVotingSchedule, ProtocolUpgradeVotingScheduleError>
OkSchedule(s) == [ok |-> TRUE, err |-> "", detail |-> << >>, val |-> s]
ErrSchedule(err, detail) ==
    [ok |-> FALSE, err |-> err, detail |-> detail, val |-> new_immediate(0)]

\* A field of an override, by what parse_datetime and parse::<u32> make of it.
DateTimeField(t) == [datetime |-> Some(t), version |-> None]
VersionField(v) == [datetime |-> None, version |-> Some(v)]
OtherField == [datetime |-> None, version |-> None]

\* The text of the override variable: "now" in any case, or the items between
\* the commas, each the fields between its `=` signs.
OverrideNow == [now |-> TRUE, items |-> << >>]
OverrideItems(items) == [now |-> FALSE, items |-> items]

\* env::var(NEAR_TESTS_PROTOCOL_UPGRADE_OVERRIDE): unset, or one of these texts.
EnvUnset == [some |-> FALSE, val |-> OverrideNow]
EnvOverrides ==
    { [some |-> TRUE, val |-> o] :
        o \in { OverrideNow,
                OverrideItems(<< <<DateTimeField(0), VersionField(1)>> >>),
                OverrideItems(<< <<DateTimeField(1), VersionField(1)>>,
                                 <<DateTimeField(0), VersionField(2)>> >>),
                OverrideItems(<< <<OtherField>> >>),
                OverrideItems(<< <<OtherField, VersionField(1)>> >>),
                OverrideItems(<< <<DateTimeField(0), OtherField>> >>) } }

\* ProtocolUpgradeVotingSchedule::parse_override, from item k on.
RECURSIVE ParseItems(_, _, _)
ParseItems(items, k, result) ==
    IF k > Len(items) THEN OkSchedule(result)
    ELSE LET datetime_and_version == items[k]
         IN  IF Len(datetime_and_version) # 2
             THEN ErrSchedule("InvalidOverrideFormat", << >>)
             ELSE IF ~datetime_and_version[1].datetime.some
             THEN ErrSchedule("InvalidOverrideFormat", << >>)
             ELSE IF ~datetime_and_version[2].version.some
             THEN ErrSchedule("InvalidOverrideFormat", << >>)
             ELSE ParseItems(items, k + 1,
                             Append(result, <<datetime_and_version[1].datetime.val,
                                              datetime_and_version[2].version.val>>))

\* ProtocolUpgradeVotingSchedule::parse_override: Ok(val) holds the raw schedule.
parse_override(override_str) ==
    IF override_str.now THEN OkSchedule(<< >>)
    ELSE ParseItems(override_str.items, 1, << >>)

\* A slip: the versions are checked before the datetimes.
SanityChecks_versions_first(client_protocol_version, schedule) ==
    IF schedule # << >> /\ schedule[Len(schedule)][2] # client_protocol_version
    THEN ErrSchedule("InvalidFinalUpgrade",
                     <<schedule[Len(schedule)][2], client_protocol_version>>)
    ELSE IF \E i \in 2..Len(schedule) : schedule[i - 1][2] + 1 # schedule[i][2]
    THEN ErrSchedule("InvalidProtocolVersionOrder", << >>)
    ELSE IF \E i \in 2..Len(schedule) : ~(schedule[i - 1][1] < schedule[i][1])
    THEN ErrSchedule("InvalidDateTimeOrder", << >>)
    ELSE OkSchedule(VotingSchedule(client_protocol_version, schedule))

\* The sanity and invariant checks of new_from_env_or_schedule.
SanityChecks(client_protocol_version, schedule) ==
    IF schedule # << >> /\ schedule[Len(schedule)][2] # client_protocol_version
    THEN ErrSchedule("InvalidFinalUpgrade",
                     <<schedule[Len(schedule)][2], client_protocol_version>>)
    ELSE IF \E i \in 2..Len(schedule) : ~(schedule[i - 1][1] < schedule[i][1])
    THEN ErrSchedule("InvalidDateTimeOrder", << >>)
    ELSE IF \E i \in 2..Len(schedule) : schedule[i - 1][2] + 1 # schedule[i][2]
    THEN ErrSchedule("InvalidProtocolVersionOrder", << >>)
    ELSE OkSchedule(VotingSchedule(client_protocol_version, schedule))

\* ProtocolUpgradeVotingSchedule::new_from_env_or_schedule
new_from_env_or_schedule(client_protocol_version, schedule, env_override) ==
    IF env_override.some
    THEN LET parsed == parse_override(env_override.val)
         IN  IF ~parsed.ok THEN parsed
             ELSE SanityChecks(client_protocol_version, parsed.val)
    ELSE SanityChecks(client_protocol_version, schedule)

\* The loop of get_protocol_version, from entry k on.
RECURSIVE VoteFrom(_, _, _, _, _)
VoteFrom(schedule, k, now, next_epoch_protocol_version, result) ==
    IF k > Len(schedule) THEN result
    ELSE IF now < schedule[k][1] THEN result
    ELSE IF schedule[k][2] > next_epoch_protocol_version THEN schedule[k][2]
    ELSE VoteFrom(schedule, k + 1, now, next_epoch_protocol_version, schedule[k][2])

\* ProtocolUpgradeVotingSchedule::get_protocol_version
get_protocol_version(s, now, next_epoch_protocol_version) ==
    IF next_epoch_protocol_version >= s.client_protocol_version
    THEN s.client_protocol_version
    ELSE IF s.schedule = << >> THEN s.client_protocol_version
    ELSE VoteFrom(s.schedule, 1, now, next_epoch_protocol_version,
                  next_epoch_protocol_version)

\* The construction of a schedule, and the votes it is asked for afterwards.
InitSchedule ==
    /\ \E client_protocol_version \in 1..MaxVersion :
         \/ \E schedule \in RawSchedules :
              args = [ client_protocol_version |-> client_protocol_version,
                       schedule |-> schedule,
                       env_override |-> EnvUnset,
                       res |-> new_from_env_or_schedule(client_protocol_version,
                                                        schedule, EnvUnset) ]
         \/ \E schedule \in { r \in RawSchedules : Len(r) <= 1 },
               env_override \in EnvOverrides :
              args = [ client_protocol_version |-> client_protocol_version,
                       schedule |-> schedule,
                       env_override |-> env_override,
                       res |-> new_from_env_or_schedule(client_protocol_version,
                                                        schedule, env_override) ]
    /\ ret = NoCall
    /\ cc = Parked /\ cret = NoCall
    /\ info = Parked /\ iret = NoCall
    /\ layout = Parked /\ lret = NoCall
    /\ vm = Parked /\ mret = NoCall

GetProtocolVersion ==
    /\ args.res.ok
    /\ \E now \in 0..(MaxTime + 1), next_epoch_protocol_version \in 0..(MaxVersion + 1) :
         ret' = [ op |-> "get_protocol_version", now |-> now,
                  next_epoch_protocol_version |-> next_epoch_protocol_version,
                  res |-> get_protocol_version(args.res.val, now,
                                               next_epoch_protocol_version) ]
    /\ UNCHANGED <<args, cc, cret, info, iret, layout, lret, vm, mret>>

NextSchedule ==
    \/ GetProtocolVersion

SpecSchedule == InitSchedule /\ [][NextSchedule]_vars

(***************************************************************************)
(* Properties of the voting schedule (SpecSchedule).                       *)
(***************************************************************************)
FinalIsClient(client, schedule) == schedule[Len(schedule)][2] = client
DateTimesIncrease(schedule) ==
    \A i \in 1..(Len(schedule) - 1) : schedule[i][1] < schedule[i + 1][1]
VersionsStepByOne(schedule) ==
    \A i \in 1..(Len(schedule) - 1) : schedule[i + 1][2] = schedule[i][2] + 1

C30_VoteIsBoundedAndMonotonic ==
    ( /\ ret.op = "get_protocol_version"
      /\ ret.next_epoch_protocol_version <= args.client_protocol_version )
        => /\ ret.next_epoch_protocol_version <= ret.res
           /\ ret.res <= args.res.val.client_protocol_version
           /\ \A later \in ret.now..(MaxTime + 1) :
                ret.res <= get_protocol_version(args.res.val, later,
                                                ret.next_epoch_protocol_version)

=============================================================================
